---- MODULE Spec2Model ----
(***************************************************************************)
(* Conversation / order state machine of the cookie-ordering chat          *)
(* assistant: the rule-based engine of lib/conversation.js, its intent      *)
(* classifier and order extractor (lib/gemini.js), the catalog lookups of   *)
(* config.js and the /api/chat route that round-trips the session.          *)
(*                                                                          *)
(* Strings are JavaScript strings; the regular expressions of the source    *)
(* are evaluated on them character by character, as sets of positions an    *)
(* NFA can be in (position p = "the next character to read is s[p]").       *)
(***************************************************************************)
EXTENDS Integers, Sequences, FiniteSets, TLC

\* ------------------------------------------------------------------ bounds

\* Number of user/assistant exchanges a session's history may hold.
MaxTurns == 5

\* ---------------------------------------------------------------- messages

\* The message texts a client sends (the route trims them and refuses an empty one).
Messages ==
  { "hi", "?", "2 dozen chocolate chip", "3 cc", "i want to order cookies",
    "done", "cancel", "Al@B.co", "yes", "modify",
    "done cancel", "cancel 3 cc", "ok cancel", "modify or cancel" }

\* The texts tried on a session in each conversation state: for every branch of
\* the state's handler one text that takes it, "cancel" everywhere, and texts
\* that match two of a handler's triggers.
Sent ==
  [idle |-> {"hi", "?", "2 dozen chocolate chip", "i want to order cookies", "cancel"},
   collecting_order |-> {"3 cc", "i want to order cookies", "done", "cancel",
                         "done cancel", "cancel 3 cc"},
   collecting_name |-> {"hi", "?", "cancel"},
   collecting_email |-> {"Al@B.co", "hi", "cancel"},
   confirming_order |-> {"yes", "modify", "hi", "cancel", "ok cancel", "modify or cancel"}]

\* The flavor texts the AI extraction call answers with.
AIFlavors == {"Oatmeal Raisin", "cc", "Brownie"}

\* The names of the catalog (config.js products, Menu sheet rows).
ProductNames ==
  {"Chocolate Chip", "Oatmeal Raisin", "Snickerdoodle", "Peanut Butter", "Sugar Cookie",
   "Double Chocolate"}

\* ------------------------------------------------------------- characters

Char(s, i) == SubSeq(s, i, i)

UpperLetters == "ABCDEFGHIJKLMNOPQRSTUVWXYZ"
LowerLetters == "abcdefghijklmnopqrstuvwxyz"
Digits == "0123456789"

InString(c, str) == \E i \in 1..Len(str) : Char(str, i) = c

\* \s of a JavaScript regular expression (the whitespace a message can hold).
IsSpace(c) == c \in {" ", "\t", "\n", "\r"}
\* \d
IsDigit(c) == InString(c, Digits)
\* \w
IsWord(c) == InString(c, LowerLetters) \/ InString(c, UpperLetters) \/ IsDigit(c) \/ c = "_"
\* [^\s@] of the email pattern
IsEmailChar(c) == ~IsSpace(c) /\ c # "@"
\* [\s!.] of the whole-message patterns
IsTrailer(c) == IsSpace(c) \/ c \in {"!", "."}

LowerChar(c) ==
  IF InString(c, UpperLetters)
  THEN Char(LowerLetters, CHOOSE i \in 1..Len(UpperLetters) : Char(UpperLetters, i) = c)
  ELSE c

RECURSIVE lowerText(_)
lowerText(s) ==
  IF Len(s) = 0 THEN "" ELSE LowerChar(Char(s, 1)) \o lowerText(SubSeq(s, 2, Len(s)))

\* The texts the engine lowercases, trims and searches: computed once each.
KnownTexts == Messages \cup AIFlavors \cup ProductNames
lowerMemo == [s \in KnownTexts |-> lowerText(s)]
LoweredTexts == KnownTexts \cup {lowerMemo[s] : s \in KnownTexts}

\* String.prototype.toLowerCase
toLowerCase(s) ==
  IF s \in KnownTexts THEN lowerMemo[s] ELSE IF s \in LoweredTexts THEN s ELSE lowerText(s)

RECURSIVE trimStart(_)
trimStart(s) ==
  IF Len(s) > 0 /\ IsSpace(Char(s, 1)) THEN trimStart(SubSeq(s, 2, Len(s))) ELSE s

RECURSIVE trimEnd(_)
trimEnd(s) ==
  IF Len(s) > 0 /\ IsSpace(Char(s, Len(s))) THEN trimEnd(SubSeq(s, 1, Len(s) - 1)) ELSE s

trimMemo == [s \in LoweredTexts |-> trimEnd(trimStart(s))]

\* String.prototype.trim
trim(s) == IF s \in LoweredTexts THEN trimMemo[s] ELSE trimEnd(trimStart(s))

DigitValue(c) == (CHOOSE i \in 1..Len(Digits) : Char(Digits, i) = c) - 1

\* parseInt(text, 10) of a non-empty string of digits.
RECURSIVE parseInt(_)
parseInt(s) ==
  IF Len(s) = 0 THEN 0
  ELSE 10 * parseInt(SubSeq(s, 1, Len(s) - 1)) + DigitValue(Char(s, Len(s)))

\* ------------------------------------------------- regular-expression steps

Positions(s) == 1..(Len(s) + 1)

\* The literal w stands at position p of s.
At(s, p, w) == p + Len(w) - 1 <= Len(s) /\ SubSeq(s, p, p + Len(w) - 1) = w

\* The words the handlers and getProductByName search a text for.
Needles ==
  {"done", "checkout", "that's all", "proceed", "finish", "cancel", "modify", "change",
   "confirm", "yes", "yea", "yeah", "yep", "sure", "ok", "okay", "place order", "submit"}
    \cup {trimMemo[lowerMemo[s]] : s \in AIFlavors}

occursIn(s, w) == \E p \in Positions(s) : At(s, p, w)
includesMemo == [s \in LoweredTexts, w \in Needles |-> occursIn(s, w)]

\* String.prototype.includes
includes(s, w) ==
  IF s \in LoweredTexts /\ w \in Needles THEN includesMemo[s, w] ELSE occursIn(s, w)

\* From the positions P, read the literal w.
Lit(s, P, w) == {p + Len(w) : p \in {q \in P : At(s, q, w)}}

\* From the positions P, read one of the literals W: (w1|w2|...).
Alt(s, P, W) == UNION {Lit(s, P, w) : w \in W}

\* Membership of a character in a named class of the source's patterns.
InClass(cls, c) ==
  CASE cls = "\\s" -> IsSpace(c)
    [] cls = "\\d" -> IsDigit(c)
    [] cls = "\\w" -> IsWord(c)
    [] cls = "[^\\s@]" -> IsEmailChar(c)
    [] cls = "[\\s!.]" -> IsTrailer(c)

\* From the positions P, read c* for the character class cls.
Star(s, P, cls) ==
  {q \in Positions(s) : \E p \in P : p <= q /\ \A k \in p..(q - 1) : InClass(cls, Char(s, k))}

\* From the positions P, read c+ for the character class cls.
Plus(s, P, cls) ==
  {q \in Positions(s) : \E p \in P : p < q /\ \A k \in p..(q - 1) : InClass(cls, Char(s, k))}

IsWordAt(s, k) == k >= 1 /\ k <= Len(s) /\ IsWord(Char(s, k))

\* \b at position p.
WordBoundary(s, p) == IsWordAt(s, p - 1) # IsWordAt(s, p)

\* The positions of P that pass the boundary ('\\b' for short patterns, '' otherwise).
Bounded(s, P, boundary) == IF boundary THEN {p \in P : WordBoundary(s, p)} ELSE P

Min(S) == CHOOSE x \in S : \A y \in S : x <= y
Max(S) == CHOOSE x \in S : \A y \in S : x >= y

\* ---------------------------------------------------------------- catalog

\* BUSINESS_CONFIG.products: name and price per dozen (all are available).
products ==
  << [name |-> "Chocolate Chip",   price |-> 18, available |-> TRUE],
     [name |-> "Oatmeal Raisin",   price |-> 16, available |-> TRUE],
     [name |-> "Snickerdoodle",    price |-> 15, available |-> TRUE],
     [name |-> "Peanut Butter",    price |-> 17, available |-> TRUE],
     [name |-> "Sugar Cookie",     price |-> 14, available |-> TRUE],
     [name |-> "Double Chocolate", price |-> 19, available |-> TRUE] >>

\* BUSINESS_CONFIG.flavorAliases, in the insertion order of the object literal.
flavorAliases ==
  << <<"chocolate", "Chocolate Chip">>,
     <<"choc chip", "Chocolate Chip">>,
     <<"cc", "Chocolate Chip">>,
     <<"oatmeal", "Oatmeal Raisin">>,
     <<"oat", "Oatmeal Raisin">>,
     <<"snicker", "Snickerdoodle">>,
     <<"cinnamon", "Snickerdoodle">>,
     <<"pb", "Peanut Butter">>,
     <<"peanut", "Peanut Butter">>,
     <<"sugar", "Sugar Cookie">>,
     <<"plain", "Sugar Cookie">>,
     <<"double choc", "Double Chocolate">> >>

\* The rows setup-data-sheets.js writes to the Menu sheet, as getMenuFromSheet reads them.
sheetMenu ==
  << [name |-> "Chocolate Chip",   price |-> 18, available |-> TRUE],
     [name |-> "Oatmeal Raisin",   price |-> 16, available |-> TRUE],
     [name |-> "Snickerdoodle",    price |-> 15, available |-> TRUE],
     [name |-> "Peanut Butter",    price |-> 17, available |-> TRUE],
     [name |-> "Sugar Cookie",     price |-> 14, available |-> TRUE],
     [name |-> "Double Chocolate", price |-> 19, available |-> TRUE] >>

\* The value JavaScript gives for "no such thing" (null / undefined).
Null == [isNull |-> TRUE]

\* Array.prototype.find over the config products: the first product in catalog
\* order whose index is in hit, or Null.
firstProduct(hit) == IF hit = {} THEN Null ELSE products[Min(hit)]

getAvailableProducts == SelectSeq(products, LAMBDA p : p.available)

\* getProducts() of the data-access layer: the Menu sheet's rows, or [] when no
\* spreadsheet is configured, the read fails or the sheet is empty.
getProducts(menuRead) ==
  IF menuRead = "ok" THEN SelectSeq(sheetMenu, LAMBDA p : p.available) ELSE <<>>

\* BUSINESS_CONFIG.flavorAliases[normalized]: the canonical name, or Null.
aliasLookup(normalized) ==
  LET hit == {i \in 1..Len(flavorAliases) : flavorAliases[i][1] = normalized}
  IN IF hit = {} THEN Null ELSE [isNull |-> FALSE, name |-> flavorAliases[Min(hit)][2]]

\* getProductByName of config.js.
getProductByName(name) ==
  LET normalized == trim(toLowerCase(name))
      aliasMatch == aliasLookup(normalized)
  IN IF ~aliasMatch.isNull
     THEN firstProduct({i \in 1..Len(products) : products[i].name = aliasMatch.name})
     ELSE firstProduct({i \in 1..Len(products) :
                          \/ toLowerCase(products[i].name) = normalized
                          \/ includes(toLowerCase(products[i].name), normalized)})

\* --------------------------------------------------------- intent classifier

\* (?:dozen|dz|doz)? read from P
OptUnit(s, P) == P \cup Alt(s, P, {"dozen", "dz", "doz"})

\* (?:\w+\s+)? read from P
OptFiller(s, P) == P \cup Plus(s, Plus(s, P, "\\w"), "\\s")

\* (?:cookies?)? read from P
OptCookies(s, P) == P \cup Alt(s, P, {"cookies", "cookie"})

\* The alternation flavorPatterns of classifyIntentQuick, read from P.
flavorPatterns(s, P) ==
  Lit(s, Star(s, Lit(s, P, "chocolate"), "\\s"), "chip")
    \cup Lit(s, Star(s, Lit(s, P, "peanut"), "\\s"), "butter")
    \cup Lit(s, Star(s, Lit(s, P, "double"), "\\s"), "choc")
    \cup Alt(s, P, {"oatmeal", "snicker", "sugar", "pb", "cc", "choc",
                    "cinnamon", "plain", "gf"})

\* /^(hi|hello|hey|good\s*(morning|afternoon|evening))[\s!.]*$/
greetingRegex(s) ==
  LET word == Alt(s, {1}, {"hi", "hello", "hey"})
                \cup Alt(s, Star(s, Lit(s, {1}, "good"), "\\s"),
                         {"morning", "afternoon", "evening"})
  IN (Len(s) + 1) \in Star(s, word, "[\\s!.]")

\* /(order|buy|want|get|need)\s*(some|a|the)?\s*(cookie|dozen)/
orderRegex(s) ==
  LET verb == Star(s, Alt(s, Positions(s), {"order", "buy", "want", "get", "need"}), "\\s")
      det  == Star(s, verb \cup Alt(s, verb, {"some", "a", "the"}), "\\s")
  IN Alt(s, det, {"cookie", "dozen"}) # {}

\* \d+\s*(?:dozen|dz|doz)?\s*(?:\w+\s+)?(?:flavorPatterns)
orderItemRegex(s) ==
  LET qty  == Star(s, Plus(s, Positions(s), "\\d"), "\\s")
      unit == Star(s, OptUnit(s, qty), "\\s")
  IN flavorPatterns(s, OptFiller(s, unit)) # {}

\* (?:flavorPatterns)\s*(?:cookies?)?\s*\d+
flavorFirstRegex(s) ==
  LET flavor == Star(s, flavorPatterns(s, Positions(s)), "\\s")
      noun   == Star(s, OptCookies(s, flavor), "\\s")
  IN Plus(s, noun, "\\d") # {}

\* /^(yes|yeah|confirm|correct|sure|ok)[\s!.]*$/
confirmRegex(s) ==
  (Len(s) + 1) \in Star(s, Alt(s, {1}, {"yes", "yeah", "confirm", "correct", "sure", "ok"}),
                        "[\\s!.]")

\* /^(no|cancel|nevermind|stop)[\s!.]*$/
cancelRegex(s) ==
  (Len(s) + 1) \in Star(s, Alt(s, {1}, {"no", "cancel", "nevermind", "stop"}), "[\\s!.]")

\* /\?|what|when|where|how|do you|can i/
faqRegex(s) ==
  \E w \in {"?", "what", "when", "where", "how", "do you", "can i"} : includes(s, w)

classifyIntentQuick(message) ==
  LET lower == trim(toLowerCase(message))
  IN IF greetingRegex(lower) THEN "GREETING"
     ELSE IF orderRegex(lower) THEN "ORDER"
     ELSE IF orderItemRegex(lower) THEN "ORDER_ITEM"
     ELSE IF flavorFirstRegex(lower) THEN "ORDER_ITEM"
     ELSE IF confirmRegex(lower) THEN "CONFIRM"
     ELSE IF cancelRegex(lower) THEN "CANCEL"
     ELSE IF faqRegex(lower) THEN "FAQ"
     ELSE "UNKNOWN"

\* ------------------------------------------------------------ order extractor

\* The patterns extractOrderDetailsLocal tries for a product: its lowercased name,
\* then the lowercased aliases that map to it, in the alias table's order.
allPatterns(product) ==
  LET mine == SelectSeq(flavorAliases, LAMBDA e : e[2] = product.name)
  IN <<toLowerCase(product.name)>> \o [i \in 1..Len(mine) |-> toLowerCase(mine[i][1])]

\* Short patterns are matched between word boundaries.
boundaryOf(pattern) == Len(pattern) <= 3

\* The tail of regexWithQty after (\d+), read from P:
\*   \s*(?:dozen|dz|doz)?\s*(?:\w+\s+)?${boundary}${escaped}${boundary}
qtyTail(s, P, pattern) ==
  LET unit   == Star(s, OptUnit(s, Star(s, P, "\\s")), "\\s")
      before == Bounded(s, OptFiller(s, unit), boundaryOf(pattern))
  IN Bounded(s, Lit(s, before, pattern), boundaryOf(pattern))

\* The ends j of a run of digits s[i..j-1] after which the tail of regexWithQty matches.
qtyEnds(s, i, pattern) ==
  {j \in Plus(s, {i}, "\\d") : qtyTail(s, {j}, pattern) # {}}

\* lower.match(regexWithQty): the leftmost match, (\d+) greedy; Null when none.
matchWithQty(s, pattern) ==
  LET Quantity(i, j) == [isNull |-> FALSE, quantity |-> parseInt(SubSeq(s, i, j - 1))]
      From(i) == Quantity(i, Max(qtyEnds(s, i, pattern)))
      Leftmost(starts) == IF starts = {} THEN Null ELSE From(Min(starts))
  IN Leftmost({i \in 1..Len(s) : qtyEnds(s, i, pattern) # {}})

\* Where (\d+) of regexFlavorFirst can start when the flavor starts at i:
\*   ${boundary}${escaped}${boundary}\s*(?:cookies?)?\s*(\d+)
flavorFirstDigits(s, i, pattern) ==
  LET b      == boundaryOf(pattern)
      flavor == Bounded(s, Lit(s, Bounded(s, {i}, b), pattern), b)
      noun   == Star(s, OptCookies(s, Star(s, flavor, "\\s")), "\\s")
  IN {p \in noun : p <= Len(s) /\ IsDigit(Char(s, p))}

\* lower.match(regexFlavorFirst): the leftmost match, (\d+) greedy; Null when none.
\* After the flavor the digits can start at one position only (white space and
\* "cookie(s)" are read as far as they go).
matchFlavorFirst(s, pattern) ==
  LET Quantity(p, j) == [isNull |-> FALSE, quantity |-> parseInt(SubSeq(s, p, j - 1))]
      From(p) == Quantity(p, Max(Plus(s, {p}, "\\d")))
      Leftmost(starts) ==
        IF starts = {} THEN Null ELSE From(Min(flavorFirstDigits(s, Min(starts), pattern)))
  IN Leftmost({i \in 1..Len(s) : flavorFirstDigits(s, i, pattern) # {}})

\* nameMatch: \b pattern \b for short patterns, lower.includes(pattern) otherwise.
nameMatch(s, pattern) ==
  IF boundaryOf(pattern)
  THEN \E p \in Positions(s) :
         WordBoundary(s, p) /\ At(s, p, pattern) /\ WordBoundary(s, p + Len(pattern))
  ELSE includes(s, pattern)

\* A test for a digit that never finds one.
hasNumber_never(s) == FALSE

\* /\d+/.test(lower)
hasNumber(s) == \E k \in 1..Len(s) : IsDigit(Char(s, k))

\* The inner loop of extractOrderDetailsLocal for one product, from pattern k on:
\* the quantity it pushes for the product, or Null when it pushes nothing.
RECURSIVE matchProduct(_, _, _)
matchProduct(lower, patterns, k) ==
  IF k > Len(patterns) THEN Null
  ELSE LET Try(pattern, match, matchFF) ==
             IF ~match.isNull THEN match
             ELSE IF ~matchFF.isNull THEN matchFF
             ELSE IF nameMatch(lower, pattern)
                  THEN (IF hasNumber(lower) THEN Null ELSE [isNull |-> FALSE, quantity |-> 1])
                  ELSE matchProduct(lower, patterns, k + 1)
       IN Try(patterns[k], matchWithQty(lower, patterns[k]),
              matchFlavorFirst(lower, patterns[k]))

\* extractOrderDetailsLocal(message, products).items
RECURSIVE localItems(_, _, _)
localItems(lower, prods, n) ==
  IF n > Len(prods) THEN <<>>
  ELSE LET Pushed(m) ==
             IF m.isNull THEN <<>> ELSE <<[flavor |-> prods[n].name, quantity |-> m.quantity]>>
       IN Pushed(matchProduct(lower, allPatterns(prods[n]), 1))
            \o localItems(lower, prods, n + 1)

extractOrderDetailsLocal(message, prods) ==
  [items |-> localItems(toLowerCase(message), prods, 1)]

\* ------------------------------------------------------------ per-message data

\* classifyIntentQuick and the local extraction pass depend on the message (and
\* the menu read) only, getProductByName on the flavor text only: computed once
\* per text.
intentOf == [m \in Messages |-> classifyIntentQuick(m)]
localOf ==
  [m \in Messages, menuRead \in {"ok", "none"} |->
     extractOrderDetailsLocal(m, getProducts(menuRead))]
productOf == [f \in AIFlavors \cup ProductNames |-> getProductByName(f)]

\* ------------------------------------------------------------- collaborators

\* The id createSession draws (`session_${Date.now()}_${random}`).
SessionIds == {"session_1"}

\* What the Menu sheet read gives getProducts in the runs explored: the rows.
\* (With no spreadsheet, a failed read or an empty sheet getProducts gives [],
\* the read "none" of getProducts and localOf.)
MenuReads == {"ok"}

\* What the AI extraction call gives extractOrderDetails: "error" (the call
\* rejects, or its text is not JSON), or the value JSON.parse returns: "null",
\* or an object with these items.
AIItemLists ==
  { <<>>,
    <<[flavor |-> "cc", quantity |-> 3]>>,
    <<[flavor |-> "Brownie", quantity |-> 2], [flavor |-> "Oatmeal Raisin", quantity |-> 0]>>,
    <<[flavor |-> "Oatmeal Raisin", quantity |-> -2]>> }

AIExtractions ==
  {[kind |-> "error", items |-> <<>>], [kind |-> "null", items |-> <<>>]}
    \cup {[kind |-> "object", items |-> l] : l \in AIItemLists}

NoExtraction == [kind |-> "error", items |-> <<>>]

\* What chat.sendMessage gives processWithGemini: an answer (JSON or plain
\* text), an error with status 429, or any other error.
GeminiOutcomes == {"answer", "429", "error"}

\* What recordOrderToSheets meets: no spreadsheet configured, the row appended,
\* or the append failing.
PersistOutcomes == {"skipped", "ok", "failed"}

\* The ids generateOrderId can return.
OrderIds == {"ORD-A", "ORD-B"}

\* ------------------------------------------------------------ rate limiter

\* The fixed per-session ceiling of AI calls.
RateLimitCeiling == 2

\* check letting a session that has used up its ceiling through once more.
check_offByOne(counts, sessionId) ==
  [allowed |-> counts[sessionId] <= RateLimitCeiling,
   remaining |-> RateLimitCeiling - counts[sessionId]]

\* check(sessionId) -> {allowed, remaining}
check(counts, sessionId) ==
  [allowed |-> counts[sessionId] < RateLimitCeiling,
   remaining |-> RateLimitCeiling - counts[sessionId]]

\* increment(sessionId)
increment(counts, sessionId) == [counts EXCEPT ![sessionId] = @ + 1]

\* ------------------------------------------------------------------ session

STATES ==
  [IDLE |-> "idle", COLLECTING_ORDER |-> "collecting_order",
   COLLECTING_NAME |-> "collecting_name", COLLECTING_EMAIL |-> "collecting_email",
   CONFIRMING_ORDER |-> "confirming_order", PROCESSING |-> "processing"]

\* A string value of a nullable field.
Str(v) == [isNull |-> FALSE, value |-> v]

\* { items: [], customerName: null, customerEmail: null, total: 0 }
emptyOrder == [items |-> <<>>, customerName |-> Null, customerEmail |-> Null, total |-> 0]

createSession(id) ==
  [id |-> id, state |-> STATES.IDLE, history |-> <<>>, order |-> emptyOrder]

\* A response text: which text it is, and the order id and total it prints.
Response(kind, orderId, total) == [kind |-> kind, orderId |-> orderId, total |-> total]

\* items.reduce((sum, item) => sum + item.quantity * item.price, 0)
RECURSIVE sumItems(_)
sumItems(items) ==
  IF Len(items) = 0 THEN 0
  ELSE sumItems(SubSeq(items, 1, Len(items) - 1))
         + items[Len(items)].quantity * items[Len(items)].price

\* item.quantity || 1
orOne(quantity) == IF quantity = 0 THEN 1 ELSE quantity

\* The loop of addItemsToOrder pushing a new line for every item it resolves.
addItem_push(lines, item) ==
  LET Found(product) ==
        IF product = Null THEN lines
        ELSE Append(lines, [flavor |-> product.name, quantity |-> orOne(item.quantity),
                            price |-> product.price])
  IN Found(productOf[item.flavor])

\* addItem starting the list over with a flavor that has no line yet.
addItem_startsOver(lines, item) ==
  LET Merge(product, existing) ==
        IF existing # {}
        THEN [lines EXCEPT ![Min(existing)].quantity = @ + orOne(item.quantity)]
        ELSE <<[flavor |-> product.name, quantity |-> orOne(item.quantity),
                price |-> product.price]>>
      Found(product) ==
        IF product = Null THEN lines
        ELSE Merge(product, {i \in 1..Len(lines) :
                               toLowerCase(lines[i].flavor) = toLowerCase(product.name)})
  IN Found(productOf[item.flavor])

\* One turn of the loop of addItemsToOrder: the order's lines after item.
addItem(lines, item) ==
  LET Merge(product, existing) ==
        IF existing # {}
        THEN [lines EXCEPT ![Min(existing)].quantity = @ + orOne(item.quantity)]
        ELSE Append(lines, [flavor |-> product.name, quantity |-> orOne(item.quantity),
                            price |-> product.price])
      Found(product) ==
        IF product = Null THEN lines
        ELSE Merge(product, {i \in 1..Len(lines) :
                               toLowerCase(lines[i].flavor) = toLowerCase(product.name)})
  IN Found(productOf[item.flavor])

RECURSIVE addItems(_, _)
addItems(lines, items) ==
  IF Len(items) = 0 THEN lines ELSE addItems(addItem(lines, Head(items)), Tail(items))

\* addItemsToOrder without its closing recalculation of the total.
addItemsToOrder_staleTotal(order, items) ==
  [order EXCEPT !.items = addItems(order.items, items)]

\* addItemsToOrder(session, items): the session's order afterwards.
addItemsToOrder(order, items) ==
  LET Recalculated(lines) == [order EXCEPT !.items = lines, !.total = sumItems(lines)]
  IN Recalculated(addItems(order.items, items))

\* ---------------------------------------------------------------- handlers

\* What a handler hands back to processMessage: its {response, newState}, the
\* session's order as the handler left it, the rate limiter's counters, what it
\* called on the way (the finalizer, the rows appended to the Orders sheet, the
\* two AI calls) and which collaborator calls failed; threw when it raised
\* instead of returning.
Result(response, newState, order, counts) ==
  [threw |-> FALSE, response |-> response, newState |-> newState, order |-> order,
   counts |-> counts, finalized |-> <<>>, rows |-> <<>>, extractAI |-> FALSE,
   geminiAI |-> FALSE, failures |-> {}]

Thrown(state, order, counts) ==
  [Result(Response("", "", 0), state, order, counts) EXCEPT !.threw = TRUE]

\* extractOrderDetails that asks the AI whatever the local pass found.
extractOrderDetails_alwaysAI(message, env) ==
  IF env.ai.kind = "error"
  THEN [isNull |-> FALSE, items |-> <<>>, aiCalled |-> TRUE, failed |-> TRUE]
  ELSE [isNull |-> env.ai.kind = "null", items |-> env.ai.items, aiCalled |-> TRUE,
        failed |-> FALSE]

\* extractOrderDetails(message): local pass first, the AI call when it finds nothing.
extractOrderDetails(message, env) ==
  LET Fallback(localResult) ==
        IF Len(localResult.items) > 0
        THEN [isNull |-> FALSE, items |-> localResult.items, aiCalled |-> FALSE,
              failed |-> FALSE]
        ELSE IF env.ai.kind = "error"
        THEN [isNull |-> FALSE, items |-> <<>>, aiCalled |-> TRUE, failed |-> TRUE]
        ELSE [isNull |-> env.ai.kind = "null", items |-> env.ai.items, aiCalled |-> TRUE,
              failed |-> FALSE]
  IN Fallback(localOf[message, env.menuRead])

\* processWithGemini(message, history, currentState): the AI's answer, the
\* "high traffic" text on a 429, and a throw on any other error.
processWithGemini(message, history, currentState, counts, env) ==
  LET called == [Result(Response("ai", "", 0), currentState, emptyOrder, counts)
                   EXCEPT !.geminiAI = TRUE]
  IN CASE env.gemini = "answer" -> called
       [] env.gemini = "429" ->
            [called EXCEPT !.response = Response("highTraffic", "", 0),
                           !.failures = {"gemini429"}]
       [] env.gemini = "error" ->
            [called EXCEPT !.threw = TRUE, !.failures = {"geminiError"}]

\* The per-session budget in front of the AI answer (the fourth argument,
\* session.id, of the call in handleIdle): a fixed "too many requests" text
\* without the AI call and without increment when the budget is used up,
\* increment and the AI call otherwise.
rateLimitedGemini(message, history, currentState, sessionId, counts, env) ==
  IF ~check(counts, sessionId).allowed
  THEN Result(Response("tooManyRequests", "", 0), currentState, emptyOrder, counts)
  ELSE processWithGemini(message, history, currentState, increment(counts, sessionId), env)

\* handleIdle(message, session, intent)
handleIdle(message, session, intent, counts, env) ==
  IF intent = "GREETING"
  THEN Result(Response("welcome", "", 0), STATES.IDLE, session.order, counts)
  ELSE IF intent \in {"ORDER", "ORDER_ITEM"}
  THEN LET Progress(added) ==
             Result(Response("orderProgress", "", added.total), STATES.COLLECTING_ORDER,
                    added, counts)
           Reply(extracted) ==
             IF extracted.isNull
             THEN [Thrown(session.state, session.order, counts) EXCEPT
                     !.extractAI = TRUE, !.failures = {"extractNull"}]
             ELSE IF Len(extracted.items) > 0
             THEN [Progress(addItemsToOrder(session.order, extracted.items)) EXCEPT
                     !.extractAI = extracted.aiCalled]
             ELSE [Result(Response("catalog", "", 0), STATES.COLLECTING_ORDER,
                          session.order, counts) EXCEPT
                     !.extractAI = extracted.aiCalled,
                     !.failures = IF extracted.failed THEN {"extractError"} ELSE {}]
       IN Reply(extractOrderDetails(message, env))
  ELSE LET aiResult == rateLimitedGemini(message, session.history, session.state,
                                          session.id, counts, env)
       IN [aiResult EXCEPT !.newState = STATES.IDLE, !.order = session.order]

\* handleCollectingOrder cancelling without emptying the order.
handleCollectingOrder_cancelKeeps(message, session, intent, counts, env) ==
  LET Added(added) ==
        Result(Response("added", "", added.total), STATES.COLLECTING_ORDER, added, counts)
      Reply(extracted) ==
        IF extracted.isNull
        THEN [Thrown(session.state, session.order, counts) EXCEPT
                !.extractAI = TRUE, !.failures = {"extractNull"}]
        ELSE IF Len(extracted.items) > 0
        THEN [Added(addItemsToOrder(session.order, extracted.items)) EXCEPT
                !.extractAI = extracted.aiCalled]
        ELSE [Result(Response("didntCatch", "", 0), STATES.COLLECTING_ORDER,
                     session.order, counts) EXCEPT
                !.extractAI = extracted.aiCalled,
                !.failures = IF extracted.failed THEN {"extractError"} ELSE {}]
      Handle(lower) ==
        IF \/ \E w \in {"done", "checkout", "that's all", "proceed", "finish"} :
                includes(lower, w)
           \/ intent = "CONFIRM"
        THEN IF Len(session.order.items) = 0
             THEN Result(Response("nothingYet", "", 0), STATES.COLLECTING_ORDER,
                         session.order, counts)
             ELSE Result(Response("askName", "", session.order.total),
                         STATES.COLLECTING_NAME, session.order, counts)
        ELSE IF intent = "CANCEL" \/ includes(lower, "cancel")
        THEN Result(Response("cancelled", "", 0), STATES.IDLE, session.order, counts)
        ELSE Reply(extractOrderDetails(message, env))
  IN Handle(toLowerCase(message))

\* handleCollectingOrder(message, session, intent)
handleCollectingOrder(message, session, intent, counts, env) ==
  LET Added(added) ==
        Result(Response("added", "", added.total), STATES.COLLECTING_ORDER, added, counts)
      Reply(extracted) ==
        IF extracted.isNull
        THEN [Thrown(session.state, session.order, counts) EXCEPT
                !.extractAI = TRUE, !.failures = {"extractNull"}]
        ELSE IF Len(extracted.items) > 0
        THEN [Added(addItemsToOrder(session.order, extracted.items)) EXCEPT
                !.extractAI = extracted.aiCalled]
        ELSE [Result(Response("didntCatch", "", 0), STATES.COLLECTING_ORDER,
                     session.order, counts) EXCEPT
                !.extractAI = extracted.aiCalled,
                !.failures = IF extracted.failed THEN {"extractError"} ELSE {}]
      Handle(lower) ==
        IF \/ \E w \in {"done", "checkout", "that's all", "proceed", "finish"} :
                includes(lower, w)
           \/ intent = "CONFIRM"
        THEN IF Len(session.order.items) = 0
             THEN Result(Response("nothingYet", "", 0), STATES.COLLECTING_ORDER,
                         session.order, counts)
             ELSE Result(Response("askName", "", session.order.total),
                         STATES.COLLECTING_NAME, session.order, counts)
        ELSE IF intent = "CANCEL" \/ includes(lower, "cancel")
        THEN Result(Response("cancelled", "", 0), STATES.IDLE, emptyOrder, counts)
        ELSE Reply(extractOrderDetails(message, env))
  IN Handle(toLowerCase(message))

\* handleCollectingName taking any non-empty text for a name.
handleCollectingName_anyText(message, session, counts) ==
  LET name == trim(message)
  IN IF Len(name) < 1
     THEN Result(Response("askFullName", "", 0), STATES.COLLECTING_NAME, session.order, counts)
     ELSE Result(Response("askEmail", "", 0), STATES.COLLECTING_EMAIL,
                 [session.order EXCEPT !.customerName = Str(name)], counts)

\* handleCollectingName(message, session)
handleCollectingName(message, session, counts) ==
  LET name == trim(message)
  IN IF Len(name) < 2
     THEN Result(Response("askFullName", "", 0), STATES.COLLECTING_NAME, session.order, counts)
     ELSE Result(Response("askEmail", "", 0), STATES.COLLECTING_EMAIL,
                 [session.order EXCEPT !.customerName = Str(name)], counts)

\* An email test that accepts every text.
emailRegex_any(s) == TRUE

\* /^[^\s@]+@[^\s@]+\.[^\s@]+$/
emailRegex(s) ==
  LET local == Lit(s, Plus(s, {1}, "[^\\s@]"), "@")
      host  == Lit(s, Plus(s, local, "[^\\s@]"), ".")
  IN (Len(s) + 1) \in Plus(s, host, "[^\\s@]")

\* handleCollectingEmail keeping the address as it was typed.
handleCollectingEmail_asTyped(message, session, counts) ==
  LET Store(email) ==
        IF ~emailRegex(email)
        THEN Result(Response("invalidEmail", "", 0), STATES.COLLECTING_EMAIL,
                    session.order, counts)
        ELSE Result(Response("finalConfirmation", "", session.order.total),
                    STATES.CONFIRMING_ORDER,
                    [session.order EXCEPT !.customerEmail = Str(email)], counts)
  IN Store(trim(message))

\* handleCollectingEmail(message, session)
handleCollectingEmail(message, session, counts) ==
  LET Store(email) ==
        IF ~emailRegex(email)
        THEN Result(Response("invalidEmail", "", 0), STATES.COLLECTING_EMAIL,
                    session.order, counts)
        ELSE Result(Response("finalConfirmation", "", session.order.total),
                    STATES.CONFIRMING_ORDER,
                    [session.order EXCEPT !.customerEmail = Str(email)], counts)
  IN Store(toLowerCase(trim(message)))

\* recordOrderToSheets whose failing append leaves its row in the sheet.
recordOrderToSheets_rowKept(orderData, env) ==
  [success |-> env.persist # "failed", orderId |-> env.orderId,
   skipped |-> env.persist = "skipped",
   rows |-> IF env.persist = "skipped" THEN <<>>
            ELSE <<[orderId |-> env.orderId, order |-> orderData]>>]

\* recordOrderToSheets that appends its row whether a spreadsheet is configured or not.
recordOrderToSheets_alwaysAppends(orderData, env) ==
  [success |-> env.persist # "failed", orderId |-> env.orderId, skipped |-> FALSE,
   rows |-> IF env.persist = "failed" THEN <<>>
            ELSE <<[orderId |-> env.orderId, order |-> orderData]>>]

\* recordOrderToSheets(orderData): what it returns and the rows it appends.
recordOrderToSheets(orderData, env) ==
  CASE env.persist = "skipped" ->
         [success |-> TRUE, orderId |-> env.orderId, skipped |-> TRUE, rows |-> <<>>]
    [] env.persist = "ok" ->
         [success |-> TRUE, orderId |-> env.orderId, skipped |-> FALSE,
          rows |-> <<[orderId |-> env.orderId, order |-> orderData]>>]
    [] env.persist = "failed" ->
         [success |-> FALSE, orderId |-> env.orderId, skipped |-> FALSE, rows |-> <<>>]

\* processOrder(order)
processOrder(order, env) ==
  LET Done(sheetResult) ==
        [success |-> TRUE, orderId |-> sheetResult.orderId, rows |-> sheetResult.rows,
         recorded |-> sheetResult.success]
  IN Done(recordOrderToSheets(order, env))

confirmWords ==
  {"confirm", "yes", "yea", "yeah", "yep", "sure", "ok", "okay", "place order", "submit"}

\* handleConfirming reading the total off the order after clearing it.
handleConfirming_clearedTotal(message, session, intent, counts, env) ==
  LET Confirmed(result, completedOrder) ==
        [Result(Response("confirmed", result.orderId, completedOrder.total), STATES.IDLE,
                emptyOrder, counts)
           EXCEPT !.finalized = <<result.orderId>>, !.rows = result.rows,
                  !.failures = IF result.recorded THEN {} ELSE {"persist"}]
      Handle(lower) ==
        IF intent = "CONFIRM" \/ \E word \in confirmWords : includes(lower, word)
        THEN Confirmed(processOrder(session.order, env), emptyOrder)
        ELSE IF includes(lower, "modify") \/ includes(lower, "change")
        THEN Result(Response("whatChange", "", session.order.total),
                    STATES.COLLECTING_ORDER, session.order, counts)
        ELSE IF intent = "CANCEL" \/ includes(lower, "cancel")
        THEN Result(Response("cancelled", "", 0), STATES.IDLE, emptyOrder, counts)
        ELSE Result(Response("reprompt", "", 0), STATES.CONFIRMING_ORDER, session.order,
                    counts)
  IN Handle(toLowerCase(message))

\* handleConfirming treating "modify" as one more confirmation.
handleConfirming_modifyConfirms(message, session, intent, counts, env) ==
  LET Confirmed(result, completedOrder) ==
        [Result(Response("confirmed", result.orderId, completedOrder.total), STATES.IDLE,
                emptyOrder, counts)
           EXCEPT !.finalized = <<result.orderId>>, !.rows = result.rows,
                  !.failures = IF result.recorded THEN {} ELSE {"persist"}]
      Handle(lower) ==
        IF \/ intent = "CONFIRM"
           \/ \E word \in confirmWords \cup {"modify", "change"} : includes(lower, word)
        THEN Confirmed(processOrder(session.order, env), session.order)
        ELSE IF intent = "CANCEL" \/ includes(lower, "cancel")
        THEN Result(Response("cancelled", "", 0), STATES.IDLE, emptyOrder, counts)
        ELSE Result(Response("reprompt", "", 0), STATES.CONFIRMING_ORDER, session.order,
                    counts)
  IN Handle(toLowerCase(message))

\* handleConfirming testing for a cancellation first.
handleConfirming_cancelFirst(message, session, intent, counts, env) ==
  LET Confirmed(result, completedOrder) ==
        [Result(Response("confirmed", result.orderId, completedOrder.total), STATES.IDLE,
                emptyOrder, counts)
           EXCEPT !.finalized = <<result.orderId>>, !.rows = result.rows,
                  !.failures = IF result.recorded THEN {} ELSE {"persist"}]
      Handle(lower) ==
        IF intent = "CANCEL" \/ includes(lower, "cancel")
        THEN Result(Response("cancelled", "", 0), STATES.IDLE, emptyOrder, counts)
        ELSE IF intent = "CONFIRM" \/ \E word \in confirmWords : includes(lower, word)
        THEN Confirmed(processOrder(session.order, env), session.order)
        ELSE IF includes(lower, "modify") \/ includes(lower, "change")
        THEN Result(Response("whatChange", "", session.order.total),
                    STATES.COLLECTING_ORDER, session.order, counts)
        ELSE Result(Response("reprompt", "", 0), STATES.CONFIRMING_ORDER, session.order,
                    counts)
  IN Handle(toLowerCase(message))

\* handleConfirming(message, session, intent)
handleConfirming(message, session, intent, counts, env) ==
  LET Confirmed(result, completedOrder) ==
        [Result(Response("confirmed", result.orderId, completedOrder.total), STATES.IDLE,
                emptyOrder, counts)
           EXCEPT !.finalized = <<result.orderId>>, !.rows = result.rows,
                  !.failures = IF result.recorded THEN {} ELSE {"persist"}]
      Handle(lower) ==
        IF intent = "CONFIRM" \/ \E word \in confirmWords : includes(lower, word)
        THEN Confirmed(processOrder(session.order, env), session.order)
        ELSE IF includes(lower, "modify") \/ includes(lower, "change")
        THEN Result(Response("whatChange", "", session.order.total),
                    STATES.COLLECTING_ORDER, session.order, counts)
        ELSE IF intent = "CANCEL" \/ includes(lower, "cancel")
        THEN Result(Response("cancelled", "", 0), STATES.IDLE, emptyOrder, counts)
        ELSE Result(Response("reprompt", "", 0), STATES.CONFIRMING_ORDER, session.order,
                    counts)
  IN Handle(toLowerCase(message))

\* processMessage(message, session): the handler's result, and the session
\* object as processMessage leaves it (returned, or left behind by a throw).
processMessage(message, session, counts, env) ==
  LET pushed == [session EXCEPT !.history = Append(@, [role |-> "user", content |-> message])]
      Dispatch(quickIntent) ==
        CASE pushed.state = STATES.IDLE ->
               handleIdle(message, pushed, quickIntent, counts, env)
          [] pushed.state = STATES.COLLECTING_ORDER ->
               handleCollectingOrder(message, pushed, quickIntent, counts, env)
          [] pushed.state = STATES.COLLECTING_NAME ->
               handleCollectingName(message, pushed, counts)
          [] pushed.state = STATES.COLLECTING_EMAIL ->
               handleCollectingEmail(message, pushed, counts)
          [] pushed.state = STATES.CONFIRMING_ORDER ->
               handleConfirming(message, pushed, quickIntent, counts, env)
          [] OTHER ->
               Result(Response("wentWrong", "", 0), STATES.IDLE, pushed.order, counts)
      Updated(result) ==
        [result |-> result,
         session |->
           IF result.threw THEN [pushed EXCEPT !.order = result.order]
           ELSE [pushed EXCEPT
                   !.order = result.order,
                   !.state = result.newState,
                   !.history = Append(@, [role |-> "assistant",
                                          content |-> result.response])]]
  IN Updated(Dispatch(intentOf[message]))

\* ------------------------------------------------------------ ADK agent tools

\* The session ids processWithADK is called with, and the keys orderStore can
\* hold: a session's id, or "default".
ADKSessionIds == {"session_1", "session_2"}
StoreKeys == ADKSessionIds \cup {"default"}

\* The entry getOrderState creates for a key that has none.
newOrderState ==
  [items |-> <<>>, customerName |-> Null, customerEmail |-> Null, total |-> 0,
   pendingItems |-> <<>>, awaitingConfirmation |-> FALSE]

\* getOrderState(sessionId): orderStore after the call.
getOrderState(store, sessionId) ==
  IF store[sessionId] = Null THEN [store EXCEPT ![sessionId] = newOrderState] ELSE store

\* recalculateTotal that leaves the total as it was.
recalculateTotal_kept(orderState) == orderState

\* recalculateTotal(orderState)
recalculateTotal(orderState) == [orderState EXCEPT !.total = sumItems(orderState.items)]

\* toolContext?.invocationContext?.session?.id
\*   || toolContext?.invocationContext?.sessionId || "default"
toolSessionId(context) == IF context = Null THEN "default" ELSE context.id

\* What a tool returns: success, which message, and the order id it reports.
ToolResult(success, message, orderId, total) ==
  [success |-> success, message |-> message, orderId |-> orderId, total |-> total]

\* One turn of the loop of add_to_order: the lines after item.
addToOrderItem(lines, item) ==
  LET Merge(product, existing) ==
        IF existing # {}
        THEN [lines EXCEPT ![Min(existing)].quantity = @ + item.quantity]
        ELSE Append(lines, [flavor |-> product.name, quantity |-> item.quantity,
                            price |-> product.price])
      Found(product) ==
        IF product = Null THEN lines
        ELSE Merge(product, {i \in 1..Len(lines) :
                               toLowerCase(lines[i].flavor) = toLowerCase(product.name)})
  IN Found(productOf[item.flavor])

RECURSIVE addToOrderItems(_, _)
addToOrderItems(lines, items) ==
  IF Len(items) = 0 THEN lines
  ELSE addToOrderItems(addToOrderItem(lines, Head(items)), Tail(items))

\* add_to_order: the order state afterwards and the tool's result.
addToOrderTool(orderState, input) ==
  LET Done(after, added) ==
        [orderState |-> after,
         result |-> ToolResult(added, IF added THEN "added" ELSE "notFound", "", after.total)]
  IN Done(recalculateTotal([orderState EXCEPT
                              !.items = addToOrderItems(orderState.items, input.items)]),
          \E i \in 1..Len(input.items) : productOf[input.items[i].flavor] # Null)

\* remove_from_order
removeFromOrderTool(orderState, input) ==
  LET Spliced(lines, index) ==
        recalculateTotal([orderState EXCEPT
                            !.items = SubSeq(lines, 1, index - 1)
                                        \o SubSeq(lines, index + 1, Len(lines))])
      Done(found) ==
        IF found = {}
        THEN [orderState |-> orderState,
              result |-> ToolResult(FALSE, "notInOrder", "", orderState.total)]
        ELSE [orderState |-> Spliced(orderState.items, Min(found)),
              result |-> ToolResult(TRUE, "removed", "",
                                    Spliced(orderState.items, Min(found)).total)]
  IN Done({i \in 1..Len(orderState.items) :
             includes(toLowerCase(orderState.items[i].flavor), toLowerCase(input.flavor))})

\* set_customer_info: a name or an email that is "" (or absent) is not stored.
setCustomerInfoTool(orderState, input) ==
  LET Done(after) ==
        [orderState |-> after,
         result |-> ToolResult(TRUE,
                      IF after.customerName # Null /\ after.customerEmail # Null
                           /\ Len(after.items) > 0 THEN "readyToConfirm"
                      ELSE IF after.customerName = Null THEN "askName" ELSE "askEmail",
                      "", after.total)]
  IN Done([orderState EXCEPT
             !.customerName = IF input.name # "" THEN Str(input.name) ELSE @,
             !.customerEmail = IF input.email # "" THEN Str(toLowerCase(input.email)) ELSE @])

\* confirm_order testing the customer's name before the order's lines.
confirmOrderValidate_nameFirst(orderState) ==
  IF orderState.customerName = Null THEN "noName"
  ELSE IF Len(orderState.items) = 0 THEN "noItems"
  ELSE IF orderState.customerEmail = Null THEN "noEmail"
  ELSE "ok"

\* The validation that opens confirm_order: the failure it returns, or "ok".
confirmOrderValidate(orderState) ==
  IF Len(orderState.items) = 0 THEN "noItems"
  ELSE IF orderState.customerName = Null THEN "noName"
  ELSE IF orderState.customerEmail = Null THEN "noEmail"
  ELSE "ok"

\* confirm_order after recordOrderToSheets has returned: the confirmed order is
\* read off the order state, and the order state is cleared.
confirmOrderFinish(orderState, orderId) ==
  [orderState |-> [orderState EXCEPT !.items = <<>>, !.customerName = Null,
                                     !.customerEmail = Null, !.total = 0],
   result |-> ToolResult(TRUE, "confirmed", orderId, orderState.total)]

\* cancel_order
cancelOrderTool(orderState) ==
  [orderState |-> newOrderState,
   result |-> ToolResult(TRUE, IF Len(orderState.items) > 0 THEN "cancelled" ELSE "noProblem",
                         "", 0)]

\* ------------------------------------------------------------------- state

VARIABLES
  session,    \* the session the client holds and sends with each message (Null before the first reply)
  rateLimit,  \* the rate limiter's counter of AI calls, per session id
  sheet,      \* the rows appended to the Orders sheet
  last,       \* the last request: the session it ran on, what it called, how it ended
  orderStore,     \* the ADK agent's orderStore: the order state per key
  requests,       \* the calls of processWithADK: free, running, recording or done
  tool,           \* the last tool call: whose, on which store, with what result
  issued,         \* the order ids of the confirmations, in the order they were reported
  contextSession, \* whether the tool context the ADK runner passes carries the session
  input,          \* the arguments of a call of one of the pure functions (Null when none is called)
  output,         \* what that call returned (Null before it returns)
  menuCache,      \* the data-access layer's menuCache: Null, or the rows and when they were read
  faqCache,       \* its faqCache, likewise
  cacheTimestamp, \* its cacheTimestamp
  clock,          \* Date.now(), in minutes
  fetched,        \* the last call of getMenuFromSheet / getFAQFromSheet and what it gave
  createdSessions, \* the ADK agent's createdSessions
  ensuring,       \* the calls of ensureSession: free, creating or done
  createCalls     \* how often sessionService.createSession was called, per session id

adkVars == <<orderStore, requests, tool, issued, contextSession>>

callVars == <<input, output>>

\* The module-level state of the data-access layer and of ensureSession.
serviceVars ==
  <<menuCache, faqCache, cacheTimestamp, clock, fetched, createdSessions, ensuring, createCalls>>

vars == <<session, rateLimit, sheet, last, adkVars, callVars, serviceVars>>

\* The number of processWithADK calls explored, and of tool calls in each.
MaxRequests == 2
MaxToolCalls == 3

\* No tool was called yet.
NoTool ==
  [name |-> "", request |-> 0, sessionId |-> "", key |-> "", before |-> Null,
   sheetBefore |-> <<>>, result |-> ToolResult(FALSE, "", "", 0)]

FreeRequest == [phase |-> "free", sessionId |-> "", calls |-> 0, sheetResult |-> Null]

\* The ADK agent before any call of processWithADK.
ADKIdle ==
  /\ orderStore = [k \in StoreKeys |-> Null]
  /\ requests = [r \in 1..MaxRequests |-> FreeRequest]
  /\ tool = NoTool
  /\ issued = <<>>

\* The data-access layer and ensureSession before any call: the caches empty
\* (menuCache = faqCache = null, cacheTimestamp = 0), no session created.
ServiceIdle ==
  /\ menuCache = Null
  /\ faqCache = Null
  /\ cacheTimestamp = 0
  /\ clock = 0
  /\ fetched = Null
  /\ createdSessions = {}
  /\ ensuring = [c \in 1..MaxRequests |-> [phase |-> "free", sessionId |-> ""]]
  /\ createCalls = [id \in ADKSessionIds |-> 0]

\* No request was made yet.
NoRequest ==
  [message |-> "", before |-> Null, after |-> Null, created |-> FALSE, threw |-> FALSE,
   status |-> 0, response |-> Response("", "", 0), finalized |-> <<>>, rows |-> <<>>,
   extractAI |-> FALSE, geminiAI |-> FALSE, failures |-> {}, countsBefore |-> [id \in SessionIds |-> 0]]

Init ==
  /\ session = Null
  /\ rateLimit = [id \in SessionIds |-> 0]
  /\ sheet = <<>>
  /\ last = NoRequest
  /\ ADKIdle
  /\ ServiceIdle
  /\ contextSession = TRUE
  /\ input = Null
  /\ output = Null

\* const session = clientSession || createSession()
Current == IF session = Null THEN createSession(CHOOSE id \in SessionIds : TRUE) ELSE session

Env(menuRead, ai, gemini, persist, orderId) ==
  [menuRead |-> menuRead, ai |-> ai, gemini |-> gemini, persist |-> persist,
   orderId |-> orderId]

\* POST /api/chat with {message, session}, and the client's setSession on success:
\* 200 with processMessage's response and session, or 500 with the route's
\* apology and no session when processMessage throws.
POST(message, env) ==
  LET Reply(cur, out) ==
        /\ session' = IF out.result.threw THEN session ELSE out.session
        /\ rateLimit' = out.result.counts
        /\ sheet' = sheet \o out.result.rows
        /\ last' = [message |-> message, before |-> cur, after |-> out.session,
                    created |-> session = Null, threw |-> out.result.threw,
                    status |-> IF out.result.threw THEN 500 ELSE 200,
                    response |-> IF out.result.threw THEN Response("routeError", "", 0)
                                 ELSE out.result.response,
                    finalized |-> out.result.finalized, rows |-> out.result.rows,
                    extractAI |-> out.result.extractAI, geminiAI |-> out.result.geminiAI,
                    failures |-> out.result.failures, countsBefore |-> rateLimit]
        /\ UNCHANGED <<adkVars, callVars, serviceVars>>
  IN /\ message \in Sent[Current.state]
     /\ Len(Current.history) < 2 * MaxTurns
     /\ Reply(Current, processMessage(trim(message), Current, rateLimit, env))

\* The collaborators at rest: none of them is called.
Quiet == Env("ok", NoExtraction, "answer", "skipped", "ORD-A")

\* A message arriving for a session in each conversation state, with every
\* outcome of the collaborators its handler calls.
PostIdle(m) ==
  /\ Current.state = STATES.IDLE
  /\ \E menuRead \in MenuReads, ai \in AIExtractions, gemini \in GeminiOutcomes :
       /\ IF intentOf[m] \in {"ORDER", "ORDER_ITEM"}
          THEN gemini = "answer"
          ELSE menuRead = "ok" /\ ai = NoExtraction
       /\ POST(m, [Quiet EXCEPT !.menuRead = menuRead, !.ai = ai, !.gemini = gemini])

PostCollectingOrder(m) ==
  /\ Current.state = STATES.COLLECTING_ORDER
  /\ \E menuRead \in MenuReads, ai \in AIExtractions :
       POST(m, [Quiet EXCEPT !.menuRead = menuRead, !.ai = ai])

PostCollectingName(m) ==
  /\ Current.state = STATES.COLLECTING_NAME
  /\ POST(m, Quiet)

PostCollectingEmail(m) ==
  /\ Current.state = STATES.COLLECTING_EMAIL
  /\ POST(m, Quiet)

PostConfirming(m) ==
  /\ Current.state = STATES.CONFIRMING_ORDER
  /\ \E persist \in PersistOutcomes, orderId \in OrderIds :
       POST(m, [Quiet EXCEPT !.persist = persist, !.orderId = orderId])

Next ==
  \E m \in Messages :
    \/ PostIdle(m)
    \/ PostCollectingOrder(m)
    \/ PostCollectingName(m)
    \/ PostCollectingEmail(m)
    \/ PostConfirming(m)

Spec == Init /\ [][Next]_vars

\* --------------------------------------------------------------- ADK agent

\* The agent at start: the runner's tool context carries the session or not.
AgentInit ==
  /\ session = Null
  /\ rateLimit = [id \in SessionIds |-> 0]
  /\ sheet = <<>>
  /\ last = NoRequest
  /\ ADKIdle
  /\ ServiceIdle
  /\ contextSession \in BOOLEAN
  /\ input = Null
  /\ output = Null

\* The key under which the tools of a request find the order state.
Key(r) ==
  toolSessionId(IF contextSession THEN [id |-> requests[r].sessionId] ELSE Null)

\* processWithADK(message, sessionId) up to runner.runAsync: ensureSession and
\* getOrderState(sessionId). Nothing holds back a second call for a session
\* that has one running.
processWithADK(r, sessionId) ==
  /\ requests[r].phase = "free"
  /\ \A q \in 1..(r - 1) : requests[q].phase # "free"
  /\ requests' = [requests EXCEPT ![r].phase = "running", ![r].sessionId = sessionId]
  /\ orderStore' = getOrderState(orderStore, sessionId)
  /\ UNCHANGED <<session, rateLimit, sheet, last, tool, issued, contextSession, callVars, serviceVars>>

\* A tool called by the agent of request r, run to its return.
Call(r, name, phase, sheetResult, out) ==
  /\ orderStore' = [orderStore EXCEPT ![Key(r)] = out.orderState]
  /\ requests' = [requests EXCEPT ![r].calls = IF phase = "recording" THEN @ ELSE @ + 1,
                                  ![r].phase = phase,
                                  ![r].sheetResult = sheetResult]
  /\ tool' = [name |-> name, request |-> r, sessionId |-> requests[r].sessionId,
              key |-> Key(r), before |-> orderStore, sheetBefore |-> sheet,
              result |-> out.result]
  /\ UNCHANGED <<session, rateLimit, last, contextSession, callVars, serviceVars>>

Ready(r) == requests[r].phase = "running" /\ requests[r].calls < MaxToolCalls

\* const orderState = getOrderState(sessionId), as every tool starts.
StateOf(r) == getOrderState(orderStore, Key(r))[Key(r)]

\* The arguments the agent gives add_to_order in the runs explored.
AddInputs ==
  { [items |-> <<[flavor |-> "cc", quantity |-> 3], [flavor |-> "Brownie", quantity |-> 2]>>] }

AddToOrder(r) ==
  /\ Ready(r)
  /\ \E arguments \in AddInputs :
       Call(r, "add_to_order", "running", Null, addToOrderTool(StateOf(r), arguments))
  /\ UNCHANGED <<sheet, issued>>

RemoveFromOrder(r) ==
  /\ Ready(r)
  /\ Call(r, "remove_from_order", "running", Null,
          removeFromOrderTool(StateOf(r), [flavor |-> "chocolate"]))
  /\ UNCHANGED <<sheet, issued>>

\* The arguments the agent gives set_customer_info in the runs explored.
InfoInputs ==
  { [name |-> "Al", email |-> ""], [name |-> "Al", email |-> "Al@B.co"] }

SetCustomerInfo(r) ==
  /\ Ready(r)
  /\ \E arguments \in InfoInputs :
       Call(r, "set_customer_info", "running", Null,
            setCustomerInfoTool(StateOf(r), arguments))
  /\ UNCHANGED <<sheet, issued>>

\* confirm_order up to its await of recordOrderToSheets: a failed validation
\* returns at once; otherwise the row is built from the order state and the
\* append is under way.
ConfirmOrder(r) ==
  LET Refused(orderState, failure) ==
        /\ Call(r, "confirm_order", "running", Null,
                [orderState |-> orderState, result |-> ToolResult(FALSE, failure, "", 0)])
        /\ UNCHANGED <<sheet, issued>>
      Recording(orderState, sheetResult) ==
        /\ Call(r, "confirm_order", "recording", sheetResult,
                [orderState |-> orderState, result |-> ToolResult(FALSE, "recording", "", 0)])
        /\ sheet' = sheet \o sheetResult.rows
        /\ UNCHANGED issued
      Validated(orderState, failure) ==
        IF failure # "ok" THEN Refused(orderState, failure)
        ELSE \E persist \in PersistOutcomes, orderId \in OrderIds :
               Recording(orderState,
                         recordOrderToSheets(
                           [items |-> orderState.items, customerName |-> orderState.customerName,
                            customerEmail |-> orderState.customerEmail, total |-> orderState.total],
                           [Quiet EXCEPT !.persist = persist, !.orderId = orderId]))
  IN /\ Ready(r)
     /\ Validated(StateOf(r), confirmOrderValidate(StateOf(r)))

\* confirm_order from the return of recordOrderToSheets to its own return.
ConfirmOrderReturn(r) ==
  /\ requests[r].phase = "recording"
  /\ Call(r, "confirm_order", "running", Null,
          confirmOrderFinish(StateOf(r), requests[r].sheetResult.orderId))
  /\ issued' = Append(issued, requests[r].sheetResult.orderId)
  /\ UNCHANGED sheet

CancelOrder(r) ==
  /\ Ready(r)
  /\ Call(r, "cancel_order", "running", Null, cancelOrderTool(StateOf(r)))
  /\ UNCHANGED <<sheet, issued>>

\* processWithADK returning {response, session: {id, order: getOrderState(sessionId)}}.
Respond(r) ==
  /\ requests[r].phase = "running"
  /\ requests' = [requests EXCEPT ![r].phase = "done"]
  /\ orderStore' = getOrderState(orderStore, requests[r].sessionId)
  /\ UNCHANGED <<session, rateLimit, sheet, last, tool, issued, contextSession, callVars, serviceVars>>

AgentNext ==
  \E r \in 1..MaxRequests :
    \/ \E sessionId \in ADKSessionIds : processWithADK(r, sessionId)
    \/ AddToOrder(r)
    \/ RemoveFromOrder(r)
    \/ SetCustomerInfo(r)
    \/ ConfirmOrder(r)
    \/ ConfirmOrderReturn(r)
    \/ CancelOrder(r)
    \/ Respond(r)

AgentSpec == AgentInit /\ [][AgentNext]_vars

\* ------------------------------------------------- the pure functions, called

\* The messages classifyIntentQuick is called with: an opening and a body.
ClassifyOpenings ==
  {"", "Hi ", "i want to order cookies ", "can i get a dozen ", "order cookie: ", "please "}
ClassifyBodies ==
  {"", "2 dozen chocolate chip", "3 cc", "sugar cookies 2", "12cc", "Yes!", "no",
   "what flavors?", "hello", "Good  Morning.", "stop ", "okay"}
ClassifyMessages == {o \o b : o \in ClassifyOpenings, b \in ClassifyBodies}

\* The longest Menu sheet explored, and the rows it is made of.
MaxCatalog == 3
MenuRows ==
  { [name |-> "Gluten-Free Sugar Cookie", price |-> 20, available |-> TRUE],
    [name |-> "Sugar Cookie", price |-> 14, available |-> TRUE],
    [name |-> "Chocolate Chip", price |-> 18, available |-> TRUE],
    [name |-> "Oatmeal Raisin", price |-> 16, available |-> TRUE] }

\* The Menu sheets getProducts can return: rows in any order, none twice.
Catalogs ==
  {c \in UNION {[1..n -> MenuRows] : n \in 0..MaxCatalog} :
     \A i, j \in 1..Len(c) : i # j => c[i] # c[j]}

\* The names getProductByNameAsync is asked for.
Queries == {"sugar cookie", " Sugar Cookie", "raisin", "brownie", "cc", "SUGAR"}

\* Array.prototype.find over a catalog: its first row whose index is in hit.
findIn(prods, hit) == IF hit = {} THEN Null ELSE prods[Min(hit)]

\* getProductByNameAsync(name), on the products getProducts returned.
getProductByNameAsync(prods, name) ==
  LET Direct(normalized) ==
        findIn(prods, {i \in 1..Len(prods) :
                         \/ toLowerCase(prods[i].name) = normalized
                         \/ includes(toLowerCase(prods[i].name), normalized)})
      Resolve(normalized, aliasMatch) ==
        IF ~aliasMatch.isNull
        THEN findIn(prods, {i \in 1..Len(prods) : prods[i].name = aliasMatch.name})
        ELSE Direct(normalized)
      Normalized(n) == Resolve(n, aliasLookup(n))
  IN Normalized(trim(toLowerCase(name)))

\* Every product name and every alias, and the messages that mention it.
Terms ==
  {products[i].name : i \in 1..Len(products)}
    \cup {flavorAliases[i][1] : i \in 1..Len(flavorAliases)}
Mentions(term) == {term, "2 dozen " \o term}

\* Messages for extractOrderDetailsLocal: a flavor given a quantity through its
\* name and through an alias, and flavors mentioned bare, with and without a
\* digit elsewhere in the message.
ExtractMessages ==
  { "2 chocolate chip and 3 cc", "3 cc and 2 chocolate chip",
    "2 snickerdoodle and 3 cinnamon", "2 dozen pb",
    "snickerdoodle", "pb and snickerdoodle please",
    "snickerdoodle and 2 cc", "cc for 2 people" }

\* String.prototype.split(/\s+/): the pieces between the runs of white space,
\* an empty piece before a leading run and after a trailing one.
RECURSIVE split(_)
split(s) ==
  LET Cut(spaces) ==
        IF spaces = {} THEN <<s>>
        ELSE <<SubSeq(s, 1, Min(spaces) - 1)>>
               \o split(trimStart(SubSeq(s, Min(spaces), Len(s))))
  IN Cut({p \in 1..Len(s) : IsSpace(Char(s, p))})

\* The loop of searchKnowledgeAsync counting every hit as 1.
RECURSIVE scoreOf_unweighted(_, _)
scoreOf_unweighted(entry, queryWords) ==
  IF Len(queryWords) = 0 THEN 0
  ELSE LET Hits(word) ==
             (IF \E k \in 1..Len(entry.keywords) :
                   includes(toLowerCase(entry.keywords[k]), word) THEN 1 ELSE 0)
               + (IF includes(toLowerCase(entry.question), word) THEN 1 ELSE 0)
               + (IF includes(toLowerCase(entry.answer), word) THEN 1 ELSE 0)
       IN Hits(Head(queryWords)) + scoreOf_unweighted(entry, Tail(queryWords))

\* The loop of searchKnowledgeAsync over queryWords: an entry's score.
RECURSIVE scoreOf(_, _)
scoreOf(entry, queryWords) ==
  IF Len(queryWords) = 0 THEN 0
  ELSE LET Hits(word) ==
             (IF \E k \in 1..Len(entry.keywords) :
                   includes(toLowerCase(entry.keywords[k]), word) THEN 3 ELSE 0)
               + (IF includes(toLowerCase(entry.question), word) THEN 2 ELSE 0)
               + (IF includes(toLowerCase(entry.answer), word) THEN 1 ELSE 0)
       IN Hits(Head(queryWords)) + scoreOf(entry, Tail(queryWords))

\* searchKnowledgeAsync(query) on the knowledge base getKnowledgeBase returned:
\* map to scores, filter score > 0, sort by descending score (the sort is
\* stable), slice(0, 3).
searchKnowledgeAsync(knowledgeBase, query) ==
  LET Sliced(scored) ==
        LET Place(i) ==
              1 + Cardinality({j \in 1..Len(scored) :
                                 \/ scored[j].score > scored[i].score
                                 \/ (scored[j].score = scored[i].score /\ j < i)})
        IN [r \in 1..Min({3, Len(scored)}) |->
              scored[CHOOSE i \in 1..Len(scored) : Place(i) = r]]
      Scored(queryWords) ==
        SelectSeq([i \in 1..Len(knowledgeBase) |->
                     [entry |-> knowledgeBase[i],
                      score |-> scoreOf(knowledgeBase[i], queryWords)]],
                  LAMBDA e : e.score > 0)
  IN Sliced(Scored(split(toLowerCase(query))))

\* The longest FAQ sheet explored, and the rows it is made of.
MaxKnowledge == 4
FAQRows ==
  { [question |-> "Hours?", answer |-> "Open daily", keywords |-> <<"hours", "Open">>],
    [question |-> "Do you deliver?", answer |-> "we deliver daily", keywords |-> <<"deliver">>],
    [question |-> "Open Sunday?", answer |-> "yes", keywords |-> <<"open", "sunday">>],
    [question |-> "Nuts?", answer |-> "open kitchen", keywords |-> <<"nut">>] }

\* The knowledge bases getKnowledgeBase can return (rows in any order, none
\* twice) and the questions asked of them.
SearchInputs ==
  {[kind |-> "search", knowledgeBase |-> kb, query |-> q] :
     kb \in {c \in UNION {[1..n -> FAQRows] : n \in 0..MaxKnowledge} :
               \A i, j \in 1..Len(c) : i # j => c[i] # c[j]},
     q \in {"open", "Daily open", " hours", "deliver nut", "zzz", "open open"}}

CallInputs ==
  {[kind |-> "classify", message |-> m] : m \in ClassifyMessages}
    \cup SearchInputs
    \cup {[kind |-> "find", products |-> c, name |-> q] : c \in Catalogs, q \in Queries}
    \cup UNION {{[kind |-> "mention", term |-> t, message |-> m] : m \in Mentions(t)} :
                t \in Terms}
    \cup {[kind |-> "extract", message |-> m] : m \in ExtractMessages}
    \cup {[kind |-> "sheets", spreadsheetId |-> configured] : configured \in BOOLEAN}
    \cup {[kind |-> "ensure"]}

\* The call has not returned yet.
NotReturned == [returned |-> FALSE]

\* One call of a pure function, on any of the inputs.
CallInit ==
  /\ session = Null
  /\ rateLimit = [id \in SessionIds |-> 0]
  /\ sheet = <<>>
  /\ last = NoRequest
  /\ ADKIdle
  /\ ServiceIdle
  /\ contextSession = TRUE
  /\ input \in CallInputs
  /\ output = NotReturned

Return(value) ==
  /\ ~output.returned
  /\ output' = [returned |-> TRUE, value |-> value]
  /\ UNCHANGED <<session, rateLimit, sheet, last, adkVars, input, serviceVars>>

Classify ==
  /\ input.kind = "classify"
  /\ Return(classifyIntentQuick(input.message))

Find ==
  /\ input.kind = "find"
  /\ Return(getProductByNameAsync(input.products, input.name))

\* A name or alias looked up by getProductByName, and a message that mentions
\* it extracted by extractOrderDetailsLocal and added to an empty order.
Mention ==
  LET Extracted(items) ==
        [product |-> getProductByName(input.term), items |-> items,
         order |-> addItemsToOrder(emptyOrder, items)]
  IN /\ input.kind = "mention"
     /\ Return(Extracted(extractOrderDetailsLocal(input.message, getProducts("ok")).items))

\* extractOrderDetailsLocal(message, products) on the catalog getProducts returns.
Extract ==
  /\ input.kind = "extract"
  /\ Return(extractOrderDetailsLocal(input.message, getProducts("ok")).items)

Search ==
  /\ input.kind = "search"
  /\ Return(searchKnowledgeAsync(input.knowledgeBase, input.query))

\* ----------------------------------------------------- data-access layer

\* CACHE_TTL, in minutes, and the latest time of a call explored.
CACHE_TTL == 5
MaxClock == 8

\* isCacheValid() called at time t.
isCacheValid(t, timestamp) == t - timestamp < CACHE_TTL

\* getKnowledgeBase() on what getFAQFromSheet returned.
getKnowledgeBase(sheetFAQ) ==
  IF sheetFAQ = Null \/ Len(sheetFAQ.rows) = 0 THEN <<>> ELSE sheetFAQ.rows

\* getProducts() calling getMenuFromSheet() at some time t: no spreadsheet,
\* the cached rows, or the Menu sheet read (the rows cached with the time of
\* the read, or the read failing).
getMenuFromSheet ==
  /\ input.kind = "sheets"
  /\ \E t \in clock..MaxClock :
       LET Got(result, cached) ==
             /\ clock' = t
             /\ fetched' = [which |-> "menu", at |-> t, cached |-> cached, result |-> result,
                            list |-> getProducts(IF result # Null /\ Len(result.rows) > 0
                                                 THEN "ok" ELSE "none")]
           Read(rows) ==
             /\ menuCache' = rows
             /\ cacheTimestamp' = t
             /\ Got(rows, FALSE)
       IN IF ~input.spreadsheetId
          THEN Got(Null, FALSE) /\ UNCHANGED <<menuCache, cacheTimestamp>>
          ELSE IF menuCache # Null /\ isCacheValid(t, cacheTimestamp)
          THEN Got(menuCache, TRUE) /\ UNCHANGED <<menuCache, cacheTimestamp>>
          ELSE \/ Read([rows |-> sheetMenu, fetchedAt |-> t])
               \/ Got(Null, FALSE) /\ UNCHANGED <<menuCache, cacheTimestamp>>
  /\ UNCHANGED <<session, rateLimit, sheet, last, adkVars, callVars, faqCache,
                 createdSessions, ensuring, createCalls>>

\* getKnowledgeBase() calling getFAQFromSheet() at some time t.
getFAQFromSheet ==
  /\ input.kind = "sheets"
  /\ \E t \in clock..MaxClock :
       LET Got(result, cached) ==
             /\ clock' = t
             /\ fetched' = [which |-> "faq", at |-> t, cached |-> cached, result |-> result,
                            list |-> getKnowledgeBase(result)]
           Read(rows) ==
             /\ faqCache' = rows
             /\ cacheTimestamp' = t
             /\ Got(rows, FALSE)
       IN IF ~input.spreadsheetId
          THEN Got(Null, FALSE) /\ UNCHANGED <<faqCache, cacheTimestamp>>
          ELSE IF faqCache # Null /\ isCacheValid(t, cacheTimestamp)
          THEN Got(faqCache, TRUE) /\ UNCHANGED <<faqCache, cacheTimestamp>>
          ELSE \/ Read([rows |-> <<CHOOSE row \in FAQRows : row.question = "Hours?">>,
                        fetchedAt |-> t])
               \/ Got(Null, FALSE) /\ UNCHANGED <<faqCache, cacheTimestamp>>
  /\ UNCHANGED <<session, rateLimit, sheet, last, adkVars, callVars, menuCache,
                 createdSessions, ensuring, createCalls>>

\* clearDataCache()
clearDataCache ==
  /\ input.kind = "sheets"
  /\ menuCache' = Null
  /\ faqCache' = Null
  /\ cacheTimestamp' = 0
  /\ fetched' = [which |-> "clear", at |-> clock, cached |-> FALSE, result |-> Null,
                 list |-> <<>>]
  /\ UNCHANGED <<session, rateLimit, sheet, last, adkVars, callVars, clock,
                 createdSessions, ensuring, createCalls>>

\* ---------------------------------------------------------- ensureSession

\* ensureSession(sessionId) up to its await: nothing to do for a session in
\* createdSessions, sessionService.createSession called otherwise.
ensureSession(c, sessionId) ==
  /\ input.kind = "ensure"
  /\ ensuring[c].phase = "free"
  /\ IF sessionId \in createdSessions
     THEN /\ ensuring' = [ensuring EXCEPT ![c] = [phase |-> "done", sessionId |-> sessionId]]
          /\ UNCHANGED createCalls
     ELSE /\ ensuring' = [ensuring EXCEPT ![c] = [phase |-> "creating", sessionId |-> sessionId]]
          /\ createCalls' = [createCalls EXCEPT ![sessionId] = @ + 1]
  /\ UNCHANGED <<session, rateLimit, sheet, last, adkVars, callVars, menuCache, faqCache,
                 cacheTimestamp, clock, fetched, createdSessions>>

\* ensureSession after its await: createdSessions.add(sessionId).
ensureSessionResumed(c) ==
  /\ input.kind = "ensure"
  /\ ensuring[c].phase = "creating"
  /\ createdSessions' = createdSessions \cup {ensuring[c].sessionId}
  /\ ensuring' = [ensuring EXCEPT ![c].phase = "done"]
  /\ UNCHANGED <<session, rateLimit, sheet, last, adkVars, callVars, menuCache, faqCache,
                 cacheTimestamp, clock, fetched, createCalls>>

CallNext ==
  \/ Classify
  \/ Search
  \/ Find
  \/ Mention
  \/ Extract
  \/ getMenuFromSheet
  \/ getFAQFromSheet
  \/ clearDataCache
  \/ \E c \in 1..MaxRequests :
       \/ \E sessionId \in ADKSessionIds : ensureSession(c, sessionId)
       \/ ensureSessionResumed(c)

CallSpec == CallInit /\ [][CallNext]_vars

\* ------------------------------------------------------------------ properties

\* C1: in every reachable session state the order's total is the sum of
\* quantity x price over the order's lines, and 0 when the order has no lines.
C1_TotalIsSum ==
  session # Null =>
    /\ session.order.total = sumItems(session.order.items)
    /\ Len(session.order.items) = 0 => session.order.total = 0

\* A session whose order holds two lines, one found by the local pass and one
\* by the AI call (its quantity 0 taken as 1).
C1_TwoLines ==
  /\ session # Null
  /\ session.order.items =
       << [flavor |-> "Chocolate Chip", quantity |-> 2, price |-> 18],
          [flavor |-> "Oatmeal Raisin", quantity |-> 1, price |-> 16] >>
  /\ session.order.total = 52

\* C2: the order never holds two lines of one flavor, and adding a flavor that
\* is already in the order raises that line's quantity by the quantity added
\* ("3 cc" on an order with a Chocolate Chip line adds 3 to that line).
C2_OneLinePerFlavor ==
  session # Null =>
    /\ \A i, j \in 1..Len(session.order.items) :
         toLowerCase(session.order.items[i].flavor) = toLowerCase(session.order.items[j].flavor)
           => i = j
    /\ (last.message = "3 cc" /\ last.response.kind = "added") =>
         \A i \in 1..Len(last.before.order.items) :
           last.before.order.items[i].flavor = "Chocolate Chip" =>
             session.order.items =
               [last.before.order.items EXCEPT ![i].quantity = @ + 3]

\* Chocolate Chip added with quantity 2 and then with quantity 3: one line of 5.
C2_TwoThenThree ==
  /\ last.message = "3 cc"
  /\ last.before.order.items = <<[flavor |-> "Chocolate Chip", quantity |-> 2, price |-> 18]>>
  /\ session.order.items = <<[flavor |-> "Chocolate Chip", quantity |-> 5, price |-> 18]>>

\* C3: in whatever state a message with "cancel" in it is answered, the session
\* is left in IDLE with an empty order.
C3_CancelReturnsToIdle ==
  (last.status = 200 /\ includes(toLowerCase(last.message), "cancel")) =>
    session.state = STATES.IDLE /\ session.order = emptyOrder

\* C4: a confirmation in CONFIRMING_ORDER with a complete order calls the
\* finalizer once, clears the order, moves to IDLE and answers with the
\* finalizer's order id and the total the order had before it was cleared; the
\* finalizer is called on no other message.
C4_ConfirmFinalizesOnce ==
  /\ (/\ last.status # 0
      /\ last.before.state = STATES.CONFIRMING_ORDER
      /\ Len(last.before.order.items) > 0
      /\ ~last.before.order.customerName.isNull
      /\ ~last.before.order.customerEmail.isNull
      /\ \/ intentOf[last.message] = "CONFIRM"
         \/ \E word \in confirmWords : includes(toLowerCase(last.message), word))
       => /\ last.status = 200
          /\ Len(last.finalized) = 1
          /\ last.response =
               Response("confirmed", last.finalized[1], sumItems(last.before.order.items))
          /\ session.state = STATES.IDLE
          /\ session.order = emptyOrder
  /\ last.finalized # <<>> =>
       last.before.state = STATES.CONFIRMING_ORDER /\ last.response.kind = "confirmed"

\* "yes" confirming two dozen Chocolate Chip: order ORD-B, total 36.
C4_Confirmed ==
  /\ last.message = "yes"
  /\ last.before.state = STATES.CONFIRMING_ORDER
  /\ last.response = Response("confirmed", "ORD-B", 36)
  /\ session.state = STATES.IDLE

C6_ValidationFailureKeepsSession ==
  (/\ last.status # 0
   /\ \/ /\ last.before.state = STATES.COLLECTING_NAME
         /\ Len(trim(last.message)) < 2
      \/ /\ last.before.state = STATES.COLLECTING_EMAIL
         /\ ~emailRegex(toLowerCase(trim(last.message)))
      \/ /\ last.before.state = STATES.COLLECTING_ORDER
         /\ Len(last.before.order.items) = 0
         /\ \/ intentOf[last.message] = "CONFIRM"
            \/ \E w \in {"done", "checkout", "that's all", "proceed", "finish"} :
                 includes(toLowerCase(last.message), w))
    => /\ last.status = 200
       /\ session.state = last.before.state
       /\ session.order = last.before.order

\* "hi" sent for an email address: the session stays in COLLECTING_EMAIL.
C6_InvalidEmail ==
  /\ last.message = "hi"
  /\ last.before.state = STATES.COLLECTING_EMAIL
  /\ last.response.kind = "invalidEmail"
  /\ session.state = STATES.COLLECTING_EMAIL

\* C7: a name of length >= 2 is stored and moves COLLECTING_NAME to
\* COLLECTING_EMAIL; an email address is stored in lower case ("Al@B.co" as
\* "al@b.co") and moves COLLECTING_EMAIL to CONFIRMING_ORDER; the rest of the
\* order (lines, total, the other field) is as it was.
C7_NameThenEmail ==
  /\ (/\ last.status # 0
      /\ last.before.state = STATES.COLLECTING_NAME
      /\ Len(trim(last.message)) >= 2)
       => /\ session.state = STATES.COLLECTING_EMAIL
          /\ session.order =
               [last.before.order EXCEPT !.customerName = Str(trim(last.message))]
  /\ (/\ last.status # 0
      /\ last.before.state = STATES.COLLECTING_EMAIL
      /\ emailRegex(toLowerCase(trim(last.message))))
       => /\ session.state = STATES.CONFIRMING_ORDER
          /\ session.order =
               [last.before.order EXCEPT
                  !.customerEmail = Str(toLowerCase(trim(last.message)))]
  /\ (last.message = "Al@B.co" /\ last.before.state = STATES.COLLECTING_EMAIL)
       => session.order.customerEmail = Str("al@b.co")

\* The name "hi" and then the address "Al@B.co" given for an order.
C7_NameAndEmailStored ==
  /\ last.message = "Al@B.co"
  /\ last.before.state = STATES.COLLECTING_EMAIL
  /\ session.state = STATES.CONFIRMING_ORDER
  /\ session.order.customerName = Str("hi")
  /\ session.order.customerEmail = Str("al@b.co")
  /\ Len(session.order.items) > 0

\* C8: when an AI call fails or a handler throws while a message is processed,
\* processMessage returns its apology and the session keeps its state and order.
C8_FailureAnsweredWithApology ==
  (last.failures \ {"persist"}) # {} =>
    /\ ~last.threw
    /\ last.response.kind = "wentWrong"
    /\ session.state = last.before.state
    /\ session.order = last.before.order

\* C9: every processed message leaves the session's history two entries
\* longer: the user turn and then the assistant turn with the returned
\* response; the entries before them are untouched.
C9_TwoTurnsPerMessage ==
  last.status # 0 =>
    last.after.history =
      last.before.history
        \o << [role |-> "user", content |-> trim(last.message)],
               [role |-> "assistant", content |-> last.response] >>

\* C10: a session's counter never passes the ceiling and never goes down; an
\* AI answer is asked for only below the ceiling and counted once; at the
\* ceiling the request is turned away without AI call and without increment.
C10_RateLimit ==
  \A id \in SessionIds :
    /\ rateLimit[id] <= RateLimitCeiling
    /\ rateLimit[id] >= last.countsBefore[id]
    /\ last.geminiAI =>
         /\ last.countsBefore[id] < RateLimitCeiling
         /\ rateLimit[id] = last.countsBefore[id] + 1
    /\ (last.status # 0 /\ ~last.geminiAI) => rateLimit[id] = last.countsBefore[id]
    /\ (/\ last.status # 0
        /\ last.before.state = STATES.IDLE
        /\ intentOf[last.message] \notin {"GREETING", "ORDER", "ORDER_ITEM"}
        /\ last.countsBefore[id] = RateLimitCeiling)
         => last.response.kind = "tooManyRequests" /\ ~last.geminiAI

\* The request after the last accepted one: turned away at the ceiling.
C10_TurnedAway ==
  /\ last.response.kind = "tooManyRequests"
  /\ \A id \in SessionIds :
       last.countsBefore[id] = RateLimitCeiling /\ rateLimit[id] = RateLimitCeiling

\* C11: a request of a session whose counter is at the ceiling (check reports
\* allowed = FALSE) makes no AI call, neither the free-form answer nor the
\* extraction fallback, and does not increment the counter.
C11_NoAICallAtCeiling ==
  (last.status # 0 /\ ~check(last.countsBefore, last.before.id).allowed) =>
    /\ ~last.geminiAI
    /\ ~last.extractAI
    /\ rateLimit = last.countsBefore

\* C12: order extraction never raises and always hands the state handler a list
\* of items: a request in which the AI extraction was called is answered
\* normally by its handler, whatever the AI call returned.
C12_ExtractionAlwaysAList ==
  (last.status # 0 /\ last.extractAI) =>
    /\ ~last.threw
    /\ "extractNull" \notin last.failures
    /\ last.status = 200

\* C13: every order line of the session has a quantity of at least 1,
\* whatever quantities the local pass or the AI extraction returned.
C13_QuantityAtLeastOne ==
  session # Null =>
    \A i \in 1..Len(session.order.items) : session.order.items[i].quantity >= 1

C15_OrderIdsUnique ==
  \A i, j \in 1..Len(issued) : i # j => issued[i] # issued[j]

\* C16: a tool call made for one session leaves the order of every other
\* session, the order that session's own tool calls work on, as it was.
C16_SessionsIndependent ==
  LET KeyOf(sessionId) ==
        toolSessionId(IF contextSession THEN [id |-> sessionId] ELSE Null)
      Seen(store, sessionId) == getOrderState(store, KeyOf(sessionId))[KeyOf(sessionId)]
  IN tool.name # "" =>
       \A other \in ADKSessionIds \ {tool.sessionId} :
         Seen(orderStore, other) = Seen(tool.before, other)

\* C17: no two messages of one session are in flight at once: of the calls of
\* processWithADK that have started and not yet returned, no two are for the
\* same session.
C17_OneMessageInFlight ==
  \A r1, r2 \in 1..MaxRequests :
    (/\ r1 # r2
     /\ requests[r1].phase \in {"running", "recording"}
     /\ requests[r2].phase \in {"running", "recording"})
      => requests[r1].sessionId # requests[r2].sessionId

\* C18: classifyIntentQuick returns one of the seven intents, the first whose
\* rule matches in the order GREETING, ORDER_ITEM, ORDER, CONFIRM, CANCEL, FAQ,
\* UNKNOWN: a message that matches the quantity-item rule and is no greeting
\* is ORDER_ITEM, also when it matches the ordering-verb rule.
C18_ItemRuleBeforeOrderRule ==
  LET Ranked(lower) ==
        /\ output.value \in {"GREETING", "ORDER", "ORDER_ITEM", "CONFIRM", "CANCEL",
                              "FAQ", "UNKNOWN"}
        /\ greetingRegex(lower) => output.value = "GREETING"
        /\ (~greetingRegex(lower) /\ (orderItemRegex(lower) \/ flavorFirstRegex(lower)))
             => output.value = "ORDER_ITEM"
  IN (input # Null /\ input.kind = "classify" /\ output.returned)
       => Ranked(trim(toLowerCase(input.message)))

\* C19: getProductByNameAsync resolves a name by exact alias, then by exact
\* product name, then by containment: on every catalog a name that is no alias
\* and equals a product's name gives that product, also when an earlier
\* product's name contains it, and a name that matches nothing gives Null.
C19_ExactNameBeforeSubstring ==
  LET Resolved(prods, normalized, aliasMatch) ==
        /\ (aliasMatch.isNull
              /\ \E i \in 1..Len(prods) : toLowerCase(prods[i].name) = normalized)
             => (output.value # Null /\ toLowerCase(output.value.name) = normalized)
        /\ (aliasMatch.isNull
              /\ \A i \in 1..Len(prods) : ~includes(toLowerCase(prods[i].name), normalized))
             => output.value = Null
      Normalized(n) == Resolved(input.products, n, aliasLookup(n))
  IN (input # Null /\ input.kind = "find" /\ output.returned)
       => Normalized(trim(toLowerCase(input.name)))

\* C20: for every product name and every alias, getProductByName gives the
\* canonical product, extracting a message that mentions the name or alias
\* gives that product's name and no other, and addItemsToOrder turns it into
\* a line of that product.
C20_SameCanonicalProduct ==
  LET Same(canonical, got) ==
        /\ got.product # Null
        /\ got.product.name = canonical
        /\ {got.items[i].flavor : i \in 1..Len(got.items)} = {canonical}
        /\ {got.order.items[i].flavor : i \in 1..Len(got.order.items)} = {canonical}
      Canonical(aliasMatch) ==
        Same(IF aliasMatch.isNull THEN input.term ELSE aliasMatch.name, output.value)
  IN (input # Null /\ input.kind = "mention" /\ output.returned)
       => Canonical(aliasLookup(toLowerCase(input.term)))

\* C21: searchKnowledgeAsync returns at most 3 entries, each with a score > 0
\* that is 3 per query word found in a keyword, 2 per word found in the
\* question and 1 per word found in the answer; the entries are in
\* non-increasing score order, equal scores in knowledge-base order, and no
\* entry left out scores higher than a returned one.
C21_TopThreeByScore ==
  LET Ranked(kb, queryWords, got) ==
        LET Points(e) ==
              3 * Cardinality({w \in 1..Len(queryWords) :
                                 \E k \in 1..Len(e.keywords) :
                                   includes(toLowerCase(e.keywords[k]), queryWords[w])})
                + 2 * Cardinality({w \in 1..Len(queryWords) :
                                     includes(toLowerCase(e.question), queryWords[w])})
                + Cardinality({w \in 1..Len(queryWords) :
                                 includes(toLowerCase(e.answer), queryWords[w])})
            Row(e) == CHOOSE i \in 1..Len(kb) : kb[i] = e
            Returned == {got[r].entry : r \in 1..Len(got)}
        IN /\ Len(got) <= 3
           /\ \A r \in 1..Len(got) :
                 /\ \E i \in 1..Len(kb) : kb[i] = got[r].entry
                 /\ got[r].score > 0
                 /\ got[r].score = Points(got[r].entry)
           /\ \A r1, r2 \in 1..Len(got) :
                 r1 < r2 =>
                   \/ got[r1].score > got[r2].score
                   \/ (got[r1].score = got[r2].score
                         /\ Row(got[r1].entry) < Row(got[r2].entry))
           /\ \A i \in 1..Len(kb) :
                 kb[i] \notin Returned =>
                   /\ \A r \in 1..Len(got) : Points(kb[i]) <= got[r].score
                   /\ Points(kb[i]) > 0 => Len(got) = 3
  IN (input # Null /\ input.kind = "search" /\ output.returned)
       => Ranked(input.knowledgeBase, split(toLowerCase(input.query)), output.value)

\* A search that scores all four rows of a knowledge base, two of them equally.
C21_FourScoredTwoTied ==
  /\ input # Null
  /\ input.kind = "search"
  /\ output.returned
  /\ Len(input.knowledgeBase) = 4
  /\ input.query = "Daily open"
  /\ Len(output.value) = 3
  /\ \E r \in 1..2 : output.value[r].score = output.value[r + 1].score

\* C22: in IDLE a message classified ORDER or ORDER_ITEM always moves the
\* session to COLLECTING_ORDER; "2 dozen chocolate chip" on an empty order gives
\* the one line {Chocolate Chip, 2, 18} and total 36, and when nothing was
\* extracted the order is unchanged.
C22_OrderIntentStartsCollecting ==
  (/\ last.status # 0
   /\ last.before.state = STATES.IDLE
   /\ intentOf[last.message] \in {"ORDER", "ORDER_ITEM"})
    => /\ last.status = 200
       /\ last.after.state = STATES.COLLECTING_ORDER
       /\ (last.message = "2 dozen chocolate chip" /\ last.before.order = emptyOrder)
            => last.after.order =
                 [emptyOrder EXCEPT
                    !.items = <<[flavor |-> "Chocolate Chip", quantity |-> 2, price |-> 18]>>,
                    !.total = 36]
       /\ last.response.kind = "catalog" => last.after.order = last.before.order

\* C23: in IDLE a message whose intent is neither ORDER nor ORDER_ITEM is
\* answered, with the greeting or with what the AI fallback gives, and leaves
\* the state IDLE and the order unchanged.
C23_OtherIntentsStayIdle ==
  (/\ last.status # 0
   /\ last.before.state = STATES.IDLE
   /\ intentOf[last.message] \notin {"ORDER", "ORDER_ITEM"})
    => /\ last.status = 200
       /\ last.response.kind \in {"welcome", "ai", "highTraffic", "tooManyRequests"}
       /\ intentOf[last.message] = "GREETING" <=> last.response.kind = "welcome"
       /\ last.after.state = STATES.IDLE
       /\ last.after.order = last.before.order

\* C24: a message that arrives with no session is processed against a fresh
\* session (state IDLE, empty history, empty order, total 0), and that session
\* is returned with the user's and the assistant's turn in its history.
C24_FreshSessionReturned ==
  (last.status # 0 /\ last.created)
    => /\ \E id \in SessionIds : last.before = createSession(id)
       /\ last.before.order = emptyOrder
       /\ session # Null
       /\ session = last.after
       /\ session.id = last.before.id
       /\ Len(session.history) = 2

\* C25: the state machine has no terminal state: every message is handled (the
\* handler returns, and the next state is one of the five), from every session
\* some finite sequence of messages leads back to IDLE, and a session that
\* was in another state is in IDLE again only because its order was completed
\* or cancelled, never because of an error.
C25_NoTerminalState ==
  LET Five == {STATES.IDLE, STATES.COLLECTING_ORDER, STATES.COLLECTING_NAME,
               STATES.COLLECTING_EMAIL, STATES.CONFIRMING_ORDER}
      Step(s, m) == processMessage(m, s, rateLimit, Quiet).session
      BackToIdle(s) ==
        CASE s.state = STATES.IDLE -> s
          [] s.state = STATES.COLLECTING_ORDER -> Step(s, "cancel")
          [] s.state = STATES.COLLECTING_NAME ->
               Step(Step(Step(s, "hi"), "Al@B.co"), "cancel")
          [] s.state = STATES.COLLECTING_EMAIL -> Step(Step(s, "Al@B.co"), "cancel")
          [] s.state = STATES.CONFIRMING_ORDER -> Step(s, "cancel")
  IN /\ last.status # 0 =>
          /\ ~last.threw
          /\ last.after.state \in Five
          /\ (last.before.state # STATES.IDLE /\ last.after.state = STATES.IDLE)
               => last.response.kind \in {"confirmed", "cancelled"}
     /\ session # Null => BackToIdle(session).state = STATES.IDLE

\* C26: with no spreadsheet configured, confirming in CONFIRMING_ORDER appends
\* no row, fails nothing and completes: the reply reports the locally generated
\* order id and the order's total, the order is cleared and the state is IDLE.
C26_UnconfiguredSheetStillCompletes ==
  (session # Null /\ session.state = STATES.CONFIRMING_ORDER) =>
    \A id \in OrderIds :
      LET Completes(out) ==
            /\ ~out.result.threw
            /\ out.result.rows = <<>>
            /\ out.result.failures = {}
            /\ out.result.finalized = <<id>>
            /\ out.result.response = Response("confirmed", id, session.order.total)
            /\ out.session.state = STATES.IDLE
            /\ out.session.order = emptyOrder
      IN Completes(processMessage("yes", session, rateLimit,
                                  [Quiet EXCEPT !.persist = "skipped", !.orderId = id]))

\* A confirmation was answered without a row appended and without a failure.
C26_ConfirmedWithoutSheet ==
  /\ last.status = 200
  /\ last.before # Null
  /\ last.before.state = STATES.CONFIRMING_ORDER
  /\ last.response.kind = "confirmed"
  /\ last.rows = <<>>
  /\ last.failures = {}
  /\ sheet = <<>>
  /\ session.state = STATES.IDLE
  /\ session.order = emptyOrder

C28_NameAndAliasQuantitiesAdd ==
  LET Summed(lower, prods, items) ==
        LET Qty(pattern) ==
              IF ~matchWithQty(lower, pattern).isNull
              THEN matchWithQty(lower, pattern).quantity
              ELSE IF ~matchFlavorFirst(lower, pattern).isNull
              THEN matchFlavorFirst(lower, pattern).quantity
              ELSE 0
            \* the name, and the aliases that are not part of the name
            Apart(patterns) ==
              {k \in 1..Len(patterns) : k = 1 \/ ~includes(patterns[1], patterns[k])}
            RECURSIVE Sum(_, _)
            Sum(patterns, ks) ==
              IF ks = {} THEN 0
              ELSE LET k == CHOOSE x \in ks : TRUE
                   IN Qty(patterns[k]) + Sum(patterns, ks \ {k})
            Entries(name) == {i \in 1..Len(items) : items[i].flavor = name}
            Added(name, patterns) ==
              (Qty(patterns[1]) > 0
                 /\ \E k \in Apart(patterns) : k > 1 /\ Qty(patterns[k]) > 0)
                => /\ Cardinality(Entries(name)) = 1
                   /\ \A i \in Entries(name) :
                        items[i].quantity = Sum(patterns, Apart(patterns))
        IN \A n \in 1..Len(prods) : Added(prods[n].name, allPatterns(prods[n]))
  IN (input # Null /\ input.kind = "extract" /\ output.returned)
       => Summed(toLowerCase(input.message), getProducts("ok"), output.value)

\* C29: a flavor that a message mentions only bare (by its name or an alias,
\* none of them next to a quantity) has an entry, of quantity 1, exactly when
\* the message holds no digit; with a digit anywhere it has no entry.
C29_BareMentionIsOneUnlessDigit ==
  LET Bare(lower, prods, items) ==
        LET digit == \E i \in 1..Len(lower) : Char(lower, i) \in
                       {"0", "1", "2", "3", "4", "5", "6", "7", "8", "9"}
            OnlyBare(patterns) ==
              /\ \A k \in 1..Len(patterns) :
                   /\ matchWithQty(lower, patterns[k]).isNull
                   /\ matchFlavorFirst(lower, patterns[k]).isNull
              /\ \E k \in 1..Len(patterns) : nameMatch(lower, patterns[k])
            Entries(name) == {i \in 1..Len(items) : items[i].flavor = name}
        IN \A n \in 1..Len(prods) :
             OnlyBare(allPatterns(prods[n])) =>
               IF digit THEN Entries(prods[n].name) = {}
               ELSE /\ Cardinality(Entries(prods[n].name)) = 1
                    /\ \A i \in Entries(prods[n].name) : items[i].quantity = 1
  IN (input # Null /\ input.kind = "extract" /\ output.returned)
       => Bare(toLowerCase(input.message), getProducts("ok"), output.value)

\* A message with a digit mentions one flavor bare and another with a
\* quantity: the extraction returned the second only.
C29_BareMentionBesideAQuantity ==
  /\ input # Null
  /\ input.kind = "extract"
  /\ input.message = "snickerdoodle and 2 cc"
  /\ output.returned
  /\ output.value = <<[flavor |-> "Chocolate Chip", quantity |-> 2]>>

\* C30: in CONFIRMING_ORDER a message that contains "modify" or "change" and no
\* confirmation word moves the session to COLLECTING_ORDER, leaves the order's
\* lines, total, customer name and customer email as they were, and does not
\* finalize: no order id is issued and no row is appended.
C30_ModifyKeepsTheOrder ==
  LET Asks(lower) ==
        /\ includes(lower, "modify") \/ includes(lower, "change")
        /\ intentOf[last.message] # "CONFIRM"
        /\ ~\E word \in confirmWords : includes(lower, word)
  IN (/\ last.status # 0
      /\ last.before.state = STATES.CONFIRMING_ORDER
      /\ Asks(toLowerCase(last.message)))
       => /\ ~last.threw
          /\ last.after.state = STATES.COLLECTING_ORDER
          /\ session = last.after
          /\ last.after.order = last.before.order
          /\ last.finalized = <<>>
          /\ last.rows = <<>>
          /\ last.response.kind = "whatChange"

\* "modify" was sent to a session in CONFIRMING_ORDER that holds an order with
\* a line, a name and an email.
C30_ModifyAskedWhileConfirming ==
  /\ last.status = 200
  /\ last.before # Null
  /\ last.before.state = STATES.CONFIRMING_ORDER
  /\ last.message = "modify"
  /\ Len(last.before.order.items) > 0
  /\ last.before.order.customerName # Null
  /\ last.before.order.customerEmail # Null
  /\ session.state = STATES.COLLECTING_ORDER

\* C31: when no spreadsheet is configured or the read of the Menu / FAQ sheet
\* fails, the catalog and the knowledge base the callers get are those of
\* config.js: the available config products, and a knowledge base that is not
\* empty.
C31_SheetFailureFallsBackToConfig ==
  (/\ input # Null
   /\ input.kind = "sheets"
   /\ fetched # Null
   /\ fetched.which \in {"menu", "faq"}
   /\ fetched.result = Null)
    => /\ fetched.list # <<>>
       /\ fetched.which = "menu" => fetched.list = getAvailableProducts

\* C37: getMenuFromSheet (getFAQFromSheet) returns its cached rows without
\* reading the sheet only while less than CACHE_TTL has passed since those
\* rows were read, and after clearDataCache both caches are empty, so that
\* the next read of each goes to the sheet.
C37_CachedRowsYoungerThanTTL ==
  (input # Null /\ input.kind = "sheets" /\ fetched # Null) =>
    /\ fetched.cached => fetched.at - fetched.result.fetchedAt < CACHE_TTL
    /\ fetched.which = "clear" => (menuCache = Null /\ faqCache = Null)

\* C38: sessionService.createSession is called at most once for each session
\* id, also when two calls of ensureSession for the same id interleave at the
\* await.
C38_CreateSessionOncePerId ==
  \A id \in ADKSessionIds : createCalls[id] <= 1

\* C32: the order invariants hold for the orders the agent's tools keep: after
\* any sequence of add_to_order, remove_from_order, set_customer_info,
\* confirm_order and cancel_order the total is the sum of quantity x price over
\* the lines and no flavor has two lines; cancel_order and a successful
\* confirm_order leave no lines, no name, no email and total 0.
C32_ToolOrderInvariants ==
  LET RECURSIVE Sum(_)
      Sum(lines) ==
        IF lines = <<>> THEN 0
        ELSE Head(lines).quantity * Head(lines).price + Sum(Tail(lines))
      Sound(order) ==
        /\ order.total = Sum(order.items)
        /\ \A i, j \in 1..Len(order.items) :
             order.items[i].flavor = order.items[j].flavor => i = j
      Cleared(order) ==
        /\ order.items = <<>>
        /\ order.customerName = Null
        /\ order.customerEmail = Null
        /\ order.total = 0
  IN /\ \A k \in StoreKeys : orderStore[k] # Null => Sound(orderStore[k])
     /\ (tool.name = "cancel_order"
           \/ (tool.name = "confirm_order" /\ tool.result.success))
          => Cleared(orderStore[tool.key])

\* add_to_order has merged a second batch into the line of the first.
C32_MergedByTool ==
  /\ tool.name = "add_to_order"
  /\ orderStore[tool.key] # Null
  /\ Len(orderStore[tool.key].items) = 1
  /\ orderStore[tool.key].items[1].quantity = 6
  /\ orderStore[tool.key].total = 6 * orderStore[tool.key].items[1].price

\* C33: a session that evolved from a fresh one through processMessage only
\* has an empty order whenever it is in IDLE: no lines, no customer name, no
\* customer email, total 0.
C33_IdleMeansEmptyOrder ==
  (session # Null /\ session.state = STATES.IDLE) =>
    /\ session.order.items = <<>>
    /\ session.order.customerName = Null
    /\ session.order.customerEmail = Null
    /\ session.order.total = 0

\* An order with a line was cancelled, and the session is in IDLE again.
C33_BackInIdleAfterCancel ==
  /\ last.status = 200
  /\ last.before # Null
  /\ last.before.state # STATES.IDLE
  /\ Len(last.before.order.items) > 0
  /\ last.response.kind = "cancelled"
  /\ session.state = STATES.IDLE

\* C34: in COLLECTING_NAME, COLLECTING_EMAIL and CONFIRMING_ORDER the order has
\* at least one line; in COLLECTING_EMAIL and CONFIRMING_ORDER the customer
\* name is set and at least 2 long; in CONFIRMING_ORDER the customer email is
\* set, lower-case and of the form x@y.z without white space; so the order
\* handed to the finalizer has a line, a name and an email.
C34_CollectedBeforeEachState ==
  LET Valid(email) ==
        /\ \A i \in 1..Len(email) :
             ~IsSpace(Char(email, i)) /\ ~InString(Char(email, i), UpperLetters)
        /\ Cardinality({i \in 1..Len(email) : Char(email, i) = "@"}) = 1
        /\ \E a, d \in 2..Len(email) - 1 :
             Char(email, a) = "@" /\ Char(email, d) = "." /\ a + 1 < d
      Lines(order) == Len(order.items) >= 1
      Named(order) == order.customerName # Null /\ Len(order.customerName.value) >= 2
      Mailed(order) == order.customerEmail # Null /\ Valid(order.customerEmail.value)
      Holds(s) ==
        /\ s.state \in {STATES.COLLECTING_NAME, STATES.COLLECTING_EMAIL,
                         STATES.CONFIRMING_ORDER} => Lines(s.order)
        /\ s.state \in {STATES.COLLECTING_EMAIL, STATES.CONFIRMING_ORDER} => Named(s.order)
        /\ s.state = STATES.CONFIRMING_ORDER => Mailed(s.order)
  IN /\ session # Null => Holds(session)
     /\ (last.status # 0 /\ last.finalized # <<>>)
          => (Lines(last.before.order) /\ Named(last.before.order)
                /\ Mailed(last.before.order))

\* The finalizer was invoked on the order of a session in CONFIRMING_ORDER.
C34_FinalizerInvoked ==
  /\ last.status = 200
  /\ last.before # Null
  /\ last.before.state = STATES.CONFIRMING_ORDER
  /\ last.finalized # <<>>
  /\ last.before.order.customerEmail # Null
  /\ last.before.order.customerEmail.value = "al@b.co"

\* C35: a handler's triggers are tried in a fixed order and the first that
\* matches decides. In COLLECTING_ORDER: checkout (done, checkout, that's all,
\* proceed, finish, or intent CONFIRM), then cancel, then extraction. In
\* CONFIRMING_ORDER: a confirmation word, then modify / change, then cancel. A
\* message that matches several triggers takes the first one's transition.
C35_FirstTriggerDecides ==
  LET Checkout(lower, intent) ==
        \/ intent = "CONFIRM"
        \/ \E w \in {"done", "checkout", "that's all", "proceed", "finish"} :
             includes(lower, w)
      Cancel(lower, intent) == intent = "CANCEL" \/ includes(lower, "cancel")
      Confirm(lower, intent) ==
        \/ intent = "CONFIRM"
        \/ \E w \in {"confirm", "yes", "yea", "yeah", "yep", "sure", "ok", "okay",
                      "place order", "submit"} : includes(lower, w)
      Modify(lower) == includes(lower, "modify") \/ includes(lower, "change")
      Collecting(lower, intent) ==
        IF Checkout(lower, intent)
        THEN /\ last.response.kind \in {"nothingYet", "askName"}
             /\ last.after.order = last.before.order
             /\ ~last.extractAI
        ELSE IF Cancel(lower, intent)
        THEN /\ last.response.kind = "cancelled"
             /\ last.after.state = STATES.IDLE
             /\ last.after.order = emptyOrder
             /\ ~last.extractAI
        ELSE last.threw \/ last.response.kind \in {"added", "didntCatch"}
      Confirming(lower, intent) ==
        IF Confirm(lower, intent)
        THEN /\ last.response.kind = "confirmed"
             /\ Len(last.finalized) = 1
             /\ last.after.state = STATES.IDLE
        ELSE IF Modify(lower)
        THEN /\ last.response.kind = "whatChange"
             /\ last.after.state = STATES.COLLECTING_ORDER
             /\ last.after.order = last.before.order
             /\ last.finalized = <<>>
        ELSE IF Cancel(lower, intent)
        THEN /\ last.response.kind = "cancelled"
             /\ last.after.state = STATES.IDLE
             /\ last.finalized = <<>>
        ELSE last.response.kind = "reprompt"
  IN last.status # 0 =>
       /\ last.before.state = STATES.COLLECTING_ORDER
            => Collecting(toLowerCase(last.message), intentOf[last.message])
       /\ last.before.state = STATES.CONFIRMING_ORDER
            => Confirming(toLowerCase(last.message), intentOf[last.message])

\* "ok cancel" was sent to a session in CONFIRMING_ORDER, and the order was
\* finalized.
C35_OkCancelFinalizes ==
  /\ last.status = 200
  /\ last.before # Null
  /\ last.before.state = STATES.CONFIRMING_ORDER
  /\ last.message = "ok cancel"
  /\ last.response.kind = "confirmed"
  /\ Len(last.finalized) = 1
  /\ session.state = STATES.IDLE

\* C36: no message removes a single line: unless the reply is a cancellation
\* or a confirmation (which clear the order), every line the session's order
\* had is still there after the reply, in its place, with the flavor and the
\* unit price it was added with.
C36_LinesStayUntilCleared ==
  [][(/\ session # Null
      /\ session' # Null
      /\ last'.response.kind \notin {"cancelled", "confirmed"})
       => /\ Len(session'.order.items) >= Len(session.order.items)
          /\ \A i \in 1..Len(session.order.items) :
               /\ session'.order.items[i].flavor = session.order.items[i].flavor
               /\ session'.order.items[i].price = session.order.items[i].price]_vars

\* A second flavor was added to an order that had a line.
C36_SecondFlavorAdded ==
  /\ last.status = 200
  /\ last.before # Null
  /\ last.response.kind = "added"
  /\ Len(last.before.order.items) = 1
  /\ Len(session.order.items) = 2
  /\ session.order.items[1] = last.before.order.items[1]

====
